---------------------------- MODULE Spec2Model ----------------------------
(***************************************************************************)
(* Model of the ingestion-and-storage pipeline of binance-collector:       *)
(*   - StorageEngine (storage/engine.py): write / read /                   *)
(*     maintain_hot_snapshot / read_hot over one (data_type, symbol) key;  *)
(*   - validate_dataframe (schema/models.py);                              *)
(*   - TradesCollector (collectors/trades.py): the cursor-based poll cycle.*)
(*                                                                         *)
(* A stored row is [id, ts]: agg_trade_id and timestamp.  ts is the first  *)
(* sort key and also stands for the row's payload: two rows with the same  *)
(* id and different ts are two versions of the same trade.                 *)
(***************************************************************************)
EXTENDS Integers, Sequences, FiniteSets, TLC

\* ------------------------------------------------------------------ bounds
MaxBatch == 2
MaxW == 2
\* the trades the exchange comes to hold, and the page size that stands for
\* the page size of the collector (limit=1000)
MaxTrades == 4
PageSize == 2
\* the default window_size of maintain_hot_snapshot
HotWindow == 5000

\* the agg_trade_id values and the timestamps a row may carry
Ids == {1, 2, 3}
Tss == {1, 2}
Rows == [id : Ids, ts : Tss]

RECURSIVE SeqsUpTo(_, _)
SeqsUpTo(S, n) ==
    IF n = 0 THEN {<<>>}
    ELSE LET shorter == SeqsUpTo(S, n - 1)
         IN  shorter \cup {Append(s, x) : s \in {t \in shorter : Len(t) = n - 1}, x \in S}

\* the row sequences a caller may hand to write (the empty one included)
Batches == SeqsUpTo(Rows, MaxBatch)

\* A DataFrame handed to write: its rows, whether it carries every column of
\* the schema, and whether every column converts to its declared dtype.
GoodFrame(rows) == [rows |-> rows, cols |-> "all", castable |-> TRUE]
BadFrames == [rows : SeqsUpTo(Rows, 1), cols : {"all", "missing"}, castable : BOOLEAN]
                 \ {GoodFrame(b) : b \in Batches}
Frames == {GoodFrame(b) : b \in Batches} \cup BadFrames
\* the frames written where the hot snapshot is followed: shorter batches
ShortFrames == {df \in Frames : Len(df.rows) < MaxBatch}
\* one well-formed frame: what a call that meets an I/O error was handed does
\* not matter to what it leaves behind
AnyFrame == GoodFrame(<<[id |-> 1, ts |-> 1]>>)

\* ------------------------------------------------------------------- files
\* A parquet file on disk: absent, complete (readable, with its rows), or
\* torn (it exists but holds only part of the bytes of a write: no footer).
Absent == [st |-> "absent", rows |-> <<>>]
Torn == [st |-> "torn", rows |-> <<>>]
File(rows) == [st |-> "ok", rows |-> rows]

VARIABLES
    main,   \* {base_path}/{data_type}/{symbol}.parquet
    hot,    \* {base_path}/{data_type}/{symbol}_hot.parquet
    last,   \* the last call a user of the engine made: operation, arguments, outcome
    wr,     \* a write in progress, step by step: [pc, buf, pre]
    obs,    \* what the last read beside a write in progress returned
    exHi,       \* the exchange holds the aggregate trades 1..exHi of the symbol
    cursor,     \* TradesCollector.last_trade_ids.get(symbol): {} is None
    pc,         \* collect_symbol: "idle", or "waiting" for the response to a request
    fromId,     \* collect_symbol's local from_id: {} is None
    allTrades,  \* collect_symbol's all_trades, the pages concatenated
    reqs,       \* the fromId parameter of each request of the cycle, in order
    cyc,        \* how the cycle began and ended
    failedIds,  \* the ids of the batches whose storage.write raised
    ds,     \* the main file of every (data_type, symbol) of a collector's list
    hs,     \* the hot file of every (data_type, symbol)
    run,    \* an update() over the list of symbols: where it is, what it did
    agg,    \* a call of _aggregate_levels: its arguments, its dict, its result
    snap,   \* the order-book cycle of one symbol: the book it got, the rows it made
    par,    \* the two collector threads of the daemon on one engine
    api,    \* the last request the query API answered
    bf,     \* a call of TradesCollector.backfill: its loop and what it did
    col,    \* a call of collect_symbol or update with their arguments
    syn,    \* the remote client: the server's dataset, the local one, a sync
    tw,     \* two callers of write on one dataset
    fs      \* the files under base_path by their path, and the last call

svars == <<main, hot, last>>
cvars == <<wr, obs>>
tvars == <<exHi, cursor, pc, fromId, allTrades, reqs, cyc, failedIds>>
mvars == <<ds, hs, run>>
xvars == <<agg, snap, par, api>>
yvars == <<bf, col, syn, tw, fs>>
vars == <<main, hot, last, wr, obs, exHi, cursor, pc, fromId, allTrades, reqs, cyc,
          failedIds, ds, hs, run, agg, snap, par, api, bf, col, syn, tw, fs>>

\* --------------------------------------------------------- pandas helpers
\* (a bug: keep='first')
RECURSIVE DropDuplicatesFirst(_)
DropDuplicatesFirst(s) ==
    IF s = <<>> THEN <<>>
    ELSE LET front == SubSeq(s, 1, Len(s) - 1)
         IN  IF \E j \in 1..Len(front) : front[j].id = s[Len(s)].id
             THEN DropDuplicatesFirst(front)
             ELSE DropDuplicatesFirst(front) \o <<s[Len(s)]>>

\* DataFrame.drop_duplicates(subset=['agg_trade_id'], keep='last'): a row
\* stays when no later row carries its id; the rows kept keep their order
RECURSIVE DropDuplicates(_)
DropDuplicates(s) ==
    IF s = <<>> THEN <<>>
    ELSE LET rest == Tail(s)
         IN  IF \E j \in 1..Len(rest) : rest[j].id = Head(s).id
             THEN DropDuplicates(rest)
             ELSE <<Head(s)>> \o DropDuplicates(rest)

\* lexicographic order on the sort columns (timestamp, agg_trade_id)
KeyLess(a, b) == a.ts < b.ts \/ (a.ts = b.ts /\ a.id < b.id)

\* x put into the sorted s behind every row that is not greater than it
RECURSIVE Insert(_, _)
Insert(s, x) ==
    IF s = <<>> THEN <<x>>
    ELSE IF KeyLess(x, Head(s)) THEN <<x>> \o s
    ELSE <<Head(s)>> \o Insert(Tail(s), x)

\* DataFrame.sort_values(['timestamp', 'agg_trade_id']): with more than one
\* sort column pandas sorts by a lexsort, which is stable
RECURSIVE SortValues(_)
SortValues(s) ==
    IF s = <<>> THEN <<>>
    ELSE Insert(SortValues(SubSeq(s, 1, Len(s) - 1)), s[Len(s)])

\* (a bug: head instead of tail)
Head_(s, n) ==
    IF n >= Len(s) THEN s ELSE SubSeq(s, 1, n)

\* DataFrame.tail(n)
Tail_(s, n) ==
    IF n >= Len(s) THEN s ELSE SubSeq(s, Len(s) - n + 1, Len(s))

\* (a validation that checks the columns are there and converts nothing)
ValidateColumnsOnly(df) == df.cols = "missing"

\* validate_dataframe raises ValueError
ValidateFails(df) == df.cols = "missing" \/ ~df.castable


\* ----------------------------------------------------------- StorageEngine
\* What the environment does to one call: nothing, an I/O error while
\* loading the existing file, an I/O error before to_parquet has opened the
\* target, or an I/O error after to_parquet has opened (truncated) it.
Faults == {"none", "load", "open", "mid"}

\* pd.read_parquet(path) raises
ReadFails(file, fault) == file.st = "torn" \/ fault = "load"

\* DataFrame.to_parquet(filepath): the target is opened for writing in place
ToParquet(file, rows, fault) ==
    CASE fault = "open" -> [file |-> file, ok |-> FALSE, err |-> "io"]
      [] fault = "mid"  -> [file |-> Torn, ok |-> FALSE, err |-> "io"]
      [] OTHER          -> [file |-> File(rows), ok |-> TRUE, err |-> "none"]

\* the rows write persists when the dataset file already exists
MergeRows(existing, rows, dedup, sort) ==
    LET combined == existing \o rows
        deduped  == IF dedup THEN DropDuplicates(combined) ELSE combined
    IN  IF sort THEN SortValues(deduped) ELSE deduped

\* (a bug: the first write is not sorted)
FirstRowsUnsorted(rows, sort) == rows

\* the rows write persists when the dataset file does not exist yet
FirstRows(rows, sort) == IF sort THEN SortValues(rows) ELSE rows

\* (a write that never loads the existing file)
RowsToWriteNoLoad(file, df, dedup, sort) == FirstRows(df.rows, sort)

\* df_to_write, once the existing file (if any) has been loaded
RowsToWrite(file, df, dedup, sort) ==
    IF file.st # "absent"
    THEN MergeRows(file.rows, df.rows, dedup, sort)
    ELSE FirstRows(df.rows, sort)

\* (a write that does not look whether the batch is empty)
WriteOutcomeNoEmptyCheck(file, df, schema, dedup, sort, fault) ==
    IF schema /\ ValidateFails(df)
    THEN [file |-> file, ok |-> FALSE, err |-> "validation"]
    ELSE IF file.st # "absent" /\ ReadFails(file, fault)
    THEN [file |-> file, ok |-> FALSE, err |-> "load"]
    ELSE ToParquet(file, RowsToWrite(file, df, dedup, sort), fault)

\* StorageEngine.write: the file it leaves and whether it returned normally
WriteOutcome(file, df, schema, dedup, sort, fault) ==
    IF df.rows = <<>>
    THEN [file |-> file, ok |-> TRUE, err |-> "empty"]
    ELSE IF schema /\ ValidateFails(df)
    THEN [file |-> file, ok |-> FALSE, err |-> "validation"]
    ELSE IF file.st # "absent" /\ ReadFails(file, fault)
    THEN [file |-> file, ok |-> FALSE, err |-> "load"]
    ELSE ToParquet(file, RowsToWrite(file, df, dedup, sort), fault)

\* (a read that takes a missing file for an error)
ReadOutcomeMissingRaises(file, fault) ==
    IF file.st = "absent" \/ ReadFails(file, fault) THEN [ok |-> FALSE, rows |-> <<>>]
    ELSE [ok |-> TRUE, rows |-> file.rows]

\* StorageEngine.read without a time range: [ok, rows]
ReadOutcome(file, fault) ==
    IF file.st = "absent" THEN [ok |-> TRUE, rows |-> <<>>]
    ELSE IF ReadFails(file, fault) THEN [ok |-> FALSE, rows |-> <<>>]
    ELSE [ok |-> TRUE, rows |-> file.rows]

\* the ends of a time range: {} for None, {t} for the timestamp t
TimeBounds == {{}} \cup {{t} : t \in Tss}

\* (a range that leaves out the rows on its ends)
InRangeExclusive(t, start, end) ==
    (\A lo \in start : t > lo) /\ (\A hi \in end : t < hi)

\* df['timestamp'] >= start_time, df['timestamp'] <= end_time, each applied
\* only when the end is given
InRange(t, start, end) ==
    (\A lo \in start : t >= lo) /\ (\A hi \in end : t <= hi)

\* boolean-mask selection: the rows in range, in the order they had
RECURSIVE SelectRange(_, _, _)
SelectRange(s, start, end) ==
    IF s = <<>> THEN <<>>
    ELSE IF InRange(Head(s).ts, start, end)
    THEN <<Head(s)>> \o SelectRange(Tail(s), start, end)
    ELSE SelectRange(Tail(s), start, end)

\* StorageEngine.read(data_type, symbol, start_time, end_time): [ok, rows]
ReadRangeOutcome(file, start, end, fault) ==
    IF ReadOutcome(file, fault).ok
    THEN [ok |-> TRUE, rows |-> SelectRange(ReadOutcome(file, fault).rows, start, end)]
    ELSE [ok |-> FALSE, rows |-> <<>>]

\* (a maintain that appends the tail to what the hot file holds and keeps the
\* last w rows of that)
HotOutcomeMerging(mainFile, hotFile, w, fault) ==
    IF mainFile.st = "absent"
    THEN [file |-> hotFile, ok |-> TRUE, err |-> "nomain"]
    ELSE IF ReadFails(mainFile, fault)
    THEN [file |-> hotFile, ok |-> FALSE, err |-> "load"]
    ELSE ToParquet(hotFile, Tail_(hotFile.rows \o Tail_(mainFile.rows, w), w), fault)

\* StorageEngine.maintain_hot_snapshot: the hot file it leaves
HotOutcome(mainFile, hotFile, w, fault) ==
    IF mainFile.st = "absent"
    THEN [file |-> hotFile, ok |-> TRUE, err |-> "nomain"]
    ELSE IF ReadFails(mainFile, fault)
    THEN [file |-> hotFile, ok |-> FALSE, err |-> "load"]
    ELSE ToParquet(hotFile, Tail_(mainFile.rows, w), fault)

\* (a read_hot that reads the main file when there is no hot file)
ReadHotOutcomeFallsBack(hotFile, fault) ==
    IF hotFile.st = "absent" THEN ReadOutcome(main, fault)
    ELSE IF ReadFails(hotFile, fault) THEN [ok |-> FALSE, rows |-> <<>>]
    ELSE [ok |-> TRUE, rows |-> hotFile.rows]

\* StorageEngine.read_hot: [ok, rows]
ReadHotOutcome(hotFile, fault) ==
    IF hotFile.st = "absent" THEN [ok |-> TRUE, rows |-> <<>>]
    ELSE IF ReadFails(hotFile, fault) THEN [ok |-> FALSE, rows |-> <<>>]
    ELSE [ok |-> TRUE, rows |-> hotFile.rows]

\* what a call was given, as far as its outcome depends on it: the number of
\* rows of the batch, whether its columns are there and convert, and the time
\* range of a read; for maintain_hot_snapshot, whether the call before it was
\* the removal of a hot file that was up to date
NoArg == [n |-> 0, cols |-> "all", castable |-> TRUE, start |-> {}, end |-> {},
          rebuild |-> FALSE]
WriteArg(df) == [NoArg EXCEPT !.n = Len(df.rows), !.cols = df.cols,
                              !.castable = df.castable]
ReadArg(start, end) == [NoArg EXCEPT !.start = start, !.end = end]
Maintained(c) == c.op = "maintain_hot" /\ c.ok /\ c.err = "none"
MaintainArg == [NoArg EXCEPT !.rebuild = (last.op = "delete_hot" /\ last.err = "none")]

\* the record of a call kept in last
\* (tick tells one call from the next: it flips on every call)
Call(op, ok, err, rows, arg, w, out) ==
    [op |-> op, ok |-> ok, err |-> err, rows |-> rows, arg |-> arg, w |-> w,
     out |-> out, tick |-> 1 - last.tick]

\* Both collectors pass their dedup and sort columns on every write; the
\* trades collector also passes TRADE_SCHEMA.
\* (keep: whether last records the batch of a write that returned normally)
Write(df, fault, keep) ==
    \E r \in {WriteOutcome(main, df, TRUE, TRUE, TRUE, fault)} :
        /\ fault = "load" => main.st = "ok"
        /\ fault \in {"open", "mid"} => r.err = "io"
        /\ main' = r.file
        /\ last' = Call("write", r.ok, r.err,
                        IF r.ok /\ keep THEN df.rows ELSE <<>>, WriteArg(df), 0, <<>>)
        /\ UNCHANGED <<hot, cvars, tvars, mvars, xvars, yvars>>

Read(start, end, fault) ==
    \E r \in {ReadRangeOutcome(main, start, end, fault)} :
        /\ fault \in {"none", "load"}
        /\ fault = "load" => main.st = "ok"
        /\ last' = Call("read", r.ok, IF r.ok THEN "none" ELSE "load", <<>>,
                        ReadArg(start, end), 0, r.rows)
        /\ UNCHANGED <<main, hot, cvars, tvars, mvars, xvars, yvars>>

MaintainHot(w, fault) ==
    \E r \in {HotOutcome(main, hot, w, fault)} :
        /\ fault = "load" => main.st = "ok"
        /\ fault \in {"open", "mid"} => r.err = "io"
        /\ hot' = r.file
        /\ last' = Call("maintain_hot", r.ok, r.err, <<>>, MaintainArg, w, <<>>)
        /\ UNCHANGED <<main, cvars, tvars, mvars, xvars, yvars>>

\* The hot file is removed from the directory (it is a cache, and the
\* engine has no call for this). The record keeps what the file held, and,
\* when the call before was the maintain_hot_snapshot that wrote it, the
\* window of that call; err is "stale" otherwise.
DeleteHot ==
    /\ hot.st # "absent"
    /\ hot' = Absent
    /\ last' = Call("delete_hot", TRUE, IF Maintained(last) THEN "none" ELSE "stale",
                    <<>>, NoArg, IF Maintained(last) THEN last.w ELSE 0, hot.rows)
    /\ UNCHANGED <<main, cvars, tvars, mvars, xvars, yvars>>

ReadHot(fault) ==
    \E r \in {ReadHotOutcome(hot, fault)} :
        /\ fault \in {"none", "load"}
        /\ fault = "load" => hot.st = "ok"
        /\ last' = Call("read_hot", r.ok, IF r.ok THEN "none" ELSE "load", <<>>, NoArg, 0,
                        r.rows)
        /\ UNCHANGED <<main, hot, cvars, tvars, mvars, xvars, yvars>>

NoWrite == [pc |-> "idle", buf |-> <<>>, pre |-> <<>>]
NoObs == [during |-> FALSE, ok |-> TRUE, rows |-> <<>>, pre |-> <<>>, post |-> <<>>]
\* cyc: afterInt  the cycle before, of the same collector, was cut short by
\*                 an exception after at least one page had been fetched;
\*      memNone   the collector held no cursor for the symbol at entry;
\*      mem       the cursor the collector held at entry ({}: none);
\*      maxStored the highest agg_trade_id stored at entry ({}: none);
\*      from      the from_id chosen at entry;
\*      began     the cycle got as far as its first request;
\*      result    "none", "running", "ok" or "error" (the entry of stats);
\*      intr      this cycle was cut short after at least one page;
\*      pages     of each response of the cycle, in order, the number of
\*                trades and the highest id ({}: an empty response);
\*      writes    how many times the cycle has called storage.write;
\*      batch     the rows it handed to storage.write;
\*      exAt      the highest id the exchange held at entry;
\*      mainAt    the main file at entry;
\*      prev      of the cycle before, of the same collector: whether its
\*                result was "ok", and its exAt.
NoCycle == [afterInt |-> FALSE, memNone |-> FALSE, mem |-> {}, maxStored |-> {},
            from |-> {}, began |-> FALSE, result |-> "none", intr |-> FALSE,
            pages |-> <<>>, writes |-> 0, batch |-> <<>>, exAt |-> 0,
            mainAt |-> Absent, prev |-> [ok |-> FALSE, ex |-> 0]]

\* The list of symbols both collectors are configured with, and the datasets
\* that belong to it.
Symbols == <<"A", "B">>
SymbolSet == {Symbols[i] : i \in DOMAIN Symbols}
Keys == {"trades", "orderbook"} \X SymbolSet

\* run: kind      "none", "trades" or "orderbook": whose update() it is;
\*      phase     "idle", "collect" (the loop over self.symbols), "save" (the
\*                loop of the order-book update over the symbols it has a
\*                snapshot of) or "done" (update() is over);
\*      i, j      the position of the two loops;
\*      t         the timestamp of the order-book snapshots of the cycle;
\*      snaps     the symbols a snapshot was collected of, in order;
\*      stats     the report built so far: symbol -> "rows" or "error"
\*                ("none": no entry);
\*      raised    update() ended in an exception and returned no report;
\*      tried     the symbols collection was begun for;
\*      written   the symbols storage.write was called for;
\*      committed the symbols whose storage.write returned normally;
\*      failed    the symbols something raised for.
NoRun == [kind |-> "none", phase |-> "idle", i |-> 0, j |-> 0, t |-> 0, snaps |-> <<>>,
          stats |-> [s \in SymbolSet |-> "none"], raised |-> FALSE, tried |-> {}, written |-> {},
          committed |-> {}, failed |-> {}]

\* no call of _aggregate_levels yet, no order-book cycle yet
NoAgg == [taken |-> FALSE, levels |-> <<>>, tick |-> 0, isBid |-> FALSE, n |-> 0,
          buckets |-> <<>>, out |-> <<>>]
NoSnap == [taken |-> FALSE, book |-> [bids |-> <<>>, asks |-> <<>>], ticks |-> <<>>,
           t |-> 0, rows |-> <<>>, before |-> Absent]

\* (an engine that names the file after the symbol alone)
FilePathBySymbol(dataType, sym) == <<"trades", sym>>

\* write: filepath = self.base_path / data_type / f"{symbol}.parquet"
FilePath(dataType, sym) == <<dataType, sym>>

\* maintain_hot_snapshot, read_hot:
\* hot_file = self.base_path / data_type / f"{symbol}_hot.parquet"
\* (the symbols of the exchange do not end in _hot, so no hot file has the
\* path of a main file)
HotPath(dataType, sym) == <<dataType, sym, "_hot">>

\* the datasets followed file by file, and their paths
FsKeys == {<<"trades", "A">>, <<"trades", "B">>, <<"orderbook", "A">>}
Paths == {FilePath(k[1], k[2]) : k \in FsKeys} \cup {HotPath(k[1], k[2]) : k \in FsKeys}

\* an empty base_path, no call yet
NoFs == [files |-> [p \in Paths |-> Absent],
         call |-> [op |-> "none", key |-> <<>>, ok |-> TRUE]]

\* the daemon before its threads have done anything:
\*      tr, ob    the trades thread and the order-book thread: the position
\*                in the list of symbols, the file a storage.write of the
\*                thread is working on ({}: none), what it is about to put
\*                there; ob.t is the timestamp of the snapshots of the cycle;
\*      seq, seqHot  the files as the same calls leave them when each runs
\*                to its end before the next begins.
NoPar == [tr |-> [i |-> 1, key |-> {}, buf |-> Absent],
          ob |-> [i |-> 1, key |-> {}, buf |-> Absent, t |-> 0],
          seq |-> [k \in Keys |-> Absent],
          seqHot |-> [k \in Keys |-> Absent]]

\* no request yet
\*      file      the dataset file of the symbol when the request came;
\*      raised    what was raised inside the handler's try ("none": nothing);
\*      status, detail, path, rows   the response: its status code, which
\*                text its detail is, whether the body holds a path of the
\*                data directory, and the rows of a 200.
NoApi == [taken |-> FALSE, endpoint |-> "none", file |-> Absent, raised |-> "none",
          status |-> 0, detail |-> "none", path |-> FALSE, rows |-> <<>>]

\* no call of backfill yet:
\*      pc        "idle", or "waiting" for the response to a request;
\*      start     the start_time of the call, maxTrades its max_trades ({}:
\*                None);
\*      fromId    the local from_id ({}: None), all the local all_trades;
\*      reqs      the fromId parameter of each request of the call, in order;
\*      pages     the number of trades of each response, in order;
\*      raised    the call ended in an exception;
\*      out       the frame it returned.
NoBf == [pc |-> "idle", start |-> 0, maxTrades |-> {}, fromId |-> {}, all |-> <<>>,
         reqs |-> <<>>, pages |-> <<>>, raised |-> FALSE, out |-> <<>>]

\* two callers that have not called write yet:
\*      a, b      of each caller: "idle", or "merged" (inside write, the
\*                existing file loaded and merged with the batch); how many
\*                calls it has finished; the batch of its last call; the
\*                file it loaded; what it is about to put there;
\*      overlap   a call has loaded the file while the other caller was
\*                inside write.
NoWriter == [pc |-> "idle", done |-> 0, batch |-> <<>>, loaded |-> Absent, buf |-> <<>>]
NoTw == [a |-> NoWriter, b |-> NoWriter, overlap |-> FALSE]

\* no call of collect_symbol from outside update(save=True) yet:
\*      pc        "idle", or "waiting" for the response to a request;
\*      kind      "collect_symbol" or "update" (update(save=False));
\*      maxReq    max_requests of the call ({}: None);
\*      fromId    the local from_id ({}: None), all the local all_trades;
\*      n         request_count, the requests sent;
\*      pages     the trades of the responses, one after the other;
\*      done      how the last call ended: "none", "returned", "raised";
\*      out       the frame it returned.
NoCol == [pc |-> "idle", kind |-> "none", maxReq |-> {}, fromId |-> {}, all |-> <<>>,
          n |-> 0, pages |-> <<>>, done |-> "none", out |-> <<>>]
NoSyn == [local |-> Absent, remote |-> Absent, taken |-> FALSE, ok |-> TRUE,
          before |-> Absent, out |-> 0]

\* a fresh engine on an empty base_path, a fresh collector, an empty exchange
Init ==
    /\ main = Absent
    /\ hot = Absent
    /\ last = [op |-> "init", ok |-> TRUE, err |-> "none", rows |-> <<>>,
               arg |-> NoArg, w |-> 0, out |-> <<>>, tick |-> 0]
    /\ wr = NoWrite
    /\ obs = NoObs
    /\ exHi = 0
    /\ cursor = {}
    /\ pc = "idle"
    /\ fromId = {}
    /\ allTrades = <<>>
    /\ reqs = <<>>
    /\ cyc = NoCycle
    /\ failedIds = {}
    /\ ds = [k \in Keys |-> Absent]
    /\ hs = [k \in Keys |-> Absent]
    /\ run = NoRun
    /\ agg = NoAgg
    /\ snap = NoSnap
    /\ par = NoPar
    /\ api = NoApi
    /\ bf = NoBf
    /\ col = NoCol
    /\ syn = NoSyn
    /\ tw = NoTw
    /\ fs = NoFs

DoWrite == \E df \in Frames : Write(df, "none", TRUE)
DoWriteH == \E df \in ShortFrames : Write(df, "none", FALSE)
WriteFails == \E fault \in Faults \ {"none"} : Write(AnyFrame, fault, FALSE)
DoRead == \E start \in TimeBounds, end \in TimeBounds, fault \in Faults :
              Read(start, end, fault)
DoReadAll == \E fault \in Faults : Read({}, {}, fault)
DoMaintainHot == \E w \in 0..MaxW, fault \in Faults : MaintainHot(w, fault)
DoReadHot == \E fault \in Faults : ReadHot(fault)

\* the write path of the storage engine, each written batch remembered
StoreNext == DoWrite \/ WriteFails \/ DoRead
Spec == Init /\ [][StoreNext]_vars

\* the storage engine with its hot snapshot
HotNext ==
    DoWriteH \/ WriteFails \/ DoReadAll \/ DoMaintainHot \/ DoReadHot \/ DeleteHot
SpecHot == Init /\ [][HotNext]_vars

\* ------------------------------------------------- storage engine: claims
IdsOf(s) == {s[i].id : i \in 1..Len(s)}
Count(s, id) == Cardinality({i \in 1..Len(s) : s[i].id = id})
\* the last row of s that carries id
LastOf(s, id) ==
    s[CHOOSE i \in 1..Len(s) :
        s[i].id = id /\ \A j \in (i + 1)..Len(s) : s[j].id # id]
Sorted(s) == \A i \in 1..(Len(s) - 1) : ~KeyLess(s[i + 1], s[i])
\* a call of write that took a non-empty batch and returned a path
Wrote(c) == c.op = "write" /\ c.ok /\ c.err = "none"

\* C1: a write that fails, at whichever step, leaves the committed dataset
\* as it was: a read after it returns the rows stored before it.
C1_FailedWriteKeepsDataset ==
    [][(main.st = "ok" /\ last'.op = "write" /\ ~last'.ok) => main' = main]_vars

\* C3: no two rows of the dataset share the dedup key agg_trade_id, also
\* when the batch that creates the dataset holds a key twice.
C3_UniqueDedupKey ==
    main.st = "ok" =>
        \A i, j \in 1..Len(main.rows) : i # j => main.rows[i].id # main.rows[j].id

\* C4: writing a non-empty batch a second time leaves the dataset the first
\* write of it left.
C4_WriteTwiceIsWriteOnce ==
    [][(Wrote(last) /\ Wrote(last') /\ last'.rows = last.rows) => main' = main]_vars

\* C5: after write(B1); write(B2) every id of B1 and of B2 is stored exactly
\* once, the ids of B2 with the row B2 gave them, and the second write adds
\* the ids of B2 and no other.
C5_MergeMonotonic ==
    [][(Wrote(last) /\ Wrote(last')) =>
          /\ \A id \in IdsOf(last.rows) \cup IdsOf(last'.rows) :
                 Count(main'.rows, id) = 1
          /\ \A id \in IdsOf(last'.rows) :
                 \E i \in 1..Len(main'.rows) :
                     main'.rows[i] = LastOf(last'.rows, id)
          /\ IdsOf(main'.rows) = IdsOf(main.rows) \cup IdsOf(last'.rows)]_vars

\* the example of the specification: ids {1,2}, then {2,3}, leaves ids 1,2,3
C5_Witness ==
    /\ Wrote(last)
    /\ last.rows = <<[id |-> 2, ts |-> 2], [id |-> 3, ts |-> 2]>>
    /\ main.rows = <<[id |-> 1, ts |-> 1], [id |-> 2, ts |-> 2], [id |-> 3, ts |-> 2]>>

\* C6: after a successful write that passes sort keys, first write or merge,
\* read returns the rows in non-decreasing lexicographic order of the keys
\* (the two sort columns of the model stand for either collector's pair).
C6_SortedAfterWrite ==
    Wrote(last) => /\ ReadOutcome(main, "none").ok
                   /\ Sorted(ReadOutcome(main, "none").rows)

\* a write whose batch came out of order
C6_Witness ==
    /\ Wrote(last)
    /\ Len(main.rows) >= 2
    /\ \E i, j \in 1..Len(last.rows) : i < j /\ KeyLess(last.rows[j], last.rows[i])

\* C7: right after maintain_hot_snapshot(key, W) on an existing dataset of n
\* rows, read_hot returns the last min(W, n) rows of read, in their order.
C7_HotIsTail ==
    (last.op = "maintain_hot" /\ last.ok /\ last.err = "none") =>
        LET all == ReadOutcome(main, "none").rows
            n   == Len(all)
            m   == IF last.w < n THEN last.w ELSE n
        IN  /\ ReadHotOutcome(hot, "none").ok
            /\ ReadHotOutcome(hot, "none").rows = [k \in 1..m |-> all[n - m + k]]

\* a window shorter than the dataset
C7_Witness ==
    /\ last.op = "maintain_hot" /\ last.ok /\ last.err = "none"
    /\ last.w >= 1
    /\ last.w < Len(main.rows)


\* --------------------------------- a write step by step, beside a reader
\* write up to df_to_write: the batch validated, the existing file loaded
WStart(df) ==
    /\ wr.pc = "idle"
    /\ df.rows # <<>>
    /\ ~ValidateFails(df)
    /\ main.st # "torn"
    /\ wr' = [pc |-> "merged", buf |-> RowsToWrite(main, df, TRUE, TRUE),
              pre |-> ReadOutcome(main, "none").rows]
    /\ UNCHANGED <<main, hot, last, obs, tvars, mvars, xvars, yvars>>

\* to_parquet opens filepath itself for writing: the old bytes are gone and
\* the new ones are not all there
WOpen ==
    /\ wr.pc = "merged"
    /\ main' = Torn
    /\ wr' = [wr EXCEPT !.pc = "writing"]
    /\ UNCHANGED <<hot, last, obs, tvars, mvars, xvars, yvars>>

\* to_parquet has written the footer and closed the file
WClose ==
    /\ wr.pc = "writing"
    /\ main' = File(wr.buf)
    /\ wr' = NoWrite
    /\ UNCHANGED <<hot, last, obs, tvars, mvars, xvars, yvars>>

\* StorageEngine.read from another thread or process
CRead ==
    \E r \in {ReadOutcome(main, "none")} :
        /\ obs' = [during |-> wr.pc # "idle", ok |-> r.ok, rows |-> r.rows,
                   pre |-> wr.pre, post |-> wr.buf]
        /\ UNCHANGED <<main, hot, last, wr, tvars, mvars, xvars, yvars>>

DoWStart == \E df \in ShortFrames : WStart(df)

ConcNext == DoWStart \/ WOpen \/ WClose \/ CRead
SpecConc == Init /\ [][ConcNext]_vars

\* C9: a read that runs beside a write to the same dataset returns the whole
\* dataset of before the write or the whole dataset of after it.
C9_ReadSeesPreOrPost ==
    obs.during => obs.ok /\ (obs.rows = obs.pre \/ obs.rows = obs.post)


\* ---------------------------------------------------------- TradesCollector
MaxOf(S) == CHOOSE x \in S : \A y \in S : y <= x

\* the aggregate trade id of the exchange, as _parse_trades returns it
Trade(i) == [id |-> i, ts |-> (i + 1) \div 2]

\* (a bug: the inclusive fromId of the API is given the exclusive cursor)
FetchParamInclusive(from) == from

\* _fetch_trades: params['fromId'], {} when the parameter is not sent
FetchParam(from) == IF from = {} THEN {} ELSE {MaxOf(from) + 1}

\* The response of the exchange to a request: at most n trades in id order,
\* from id fromId on, or from the first trade when fromId is not sent.
ExchangePage(param, n) ==
    LET lo == IF param = {} THEN 1 ELSE MaxOf(param)
        hi == IF lo + n - 1 < exHi THEN lo + n - 1 ELSE exHi
    IN  IF hi < lo THEN <<>> ELSE [k \in 1..(hi - lo + 1) |-> Trade(lo + k - 1)]

\* the exchange matches one more aggregate trade
NewTrade ==
    /\ exHi < MaxTrades
    /\ exHi' = exHi + 1
    /\ UNCHANGED <<svars, cvars, mvars, xvars, yvars, cursor, pc, fromId, allTrades, reqs, cyc, failedIds>>

\* existing['agg_trade_id'].max(), {} when nothing is stored
StoredMax(file) ==
    IF file.st = "ok" /\ file.rows # <<>> THEN {MaxOf(IdsOf(file.rows))} ELSE {}

\* (a collector that asks storage first and its own memory second)
ChooseFromStorageFirst(cur, file) ==
    IF StoredMax(file) # {} THEN StoredMax(file) ELSE cur

\* collect_symbol: from_id is last_trade_ids.get(symbol); only when that is
\* None is the dataset read and its highest id taken
ChooseFrom(cur, file) == IF cur # {} THEN cur ELSE StoredMax(file)

\* (a loop that also stops after a full page)
CaughtUpInclusive(page) == Len(page) <= PageSize

\* len(raw_trades) < 1000: the loop of collect_symbol is left
CaughtUp(page) == Len(page) < PageSize

\* (a loop that asks for the same page again)
NextFromSame(from, lastId) == from

\* from_id = last_id: the next request follows the page just read
NextFrom(from, lastId) == {lastId}

\* (a cycle that keeps only the page it got last)
ConcatLastPage(all, page) == page

\* all_trades.append(df), and pd.concat(all_trades) at the end
Concat(all, page) == all \o page

\* (an update() that writes whatever collect_symbol returned)
NothingCollectedNever(batch) == FALSE

\* update(): save and not df.empty is false, nothing is written
NothingCollected(batch) == batch = <<>>

\* the cycle record with one more call of storage.write on it
Written(c, batch) == [c EXCEPT !.writes = @ + 1, !.batch = batch]

\* the cycle record with one more response on it
Paged(c, page) ==
    [c EXCEPT !.pages = Append(@, [n |-> Len(page),
                                   max |-> IF page = <<>> THEN {}
                                           ELSE {MaxOf(IdsOf(page))}])]

\* update() enters collect_symbol: from_id is determined and the first
\* request is sent; a storage read that raises ends the cycle in update's
\* except clause.
Begin(fault) ==
    /\ pc = "idle"
    /\ fault \in {"none", "load"}
    /\ fault = "load" => main.st = "ok"
    /\ IF main.st # "absent" /\ ReadFails(main, fault)
       THEN /\ cyc' = [NoCycle EXCEPT !.afterInt = cyc.intr, !.memNone = (cursor = {}),
                                      !.mem = cursor, !.result = "error",
                                      !.exAt = exHi, !.mainAt = main,
                                      !.prev = [ok |-> cyc.result = "ok",
                                                ex |-> cyc.exAt]]
            /\ reqs' = <<>>
            /\ UNCHANGED <<pc, fromId, allTrades>>
       ELSE \E from \in {ChooseFrom(cursor, main)} :
            /\ cyc' = [afterInt |-> cyc.intr, memNone |-> (cursor = {}),
                       mem |-> cursor, maxStored |-> StoredMax(main), from |-> from,
                       began |-> TRUE, result |-> "running", intr |-> FALSE,
                       pages |-> <<>>, writes |-> 0, batch |-> <<>>,
                       exAt |-> exHi, mainAt |-> main,
                       prev |-> [ok |-> cyc.result = "ok", ex |-> cyc.exAt]]
            /\ fromId' = from
            /\ allTrades' = <<>>
            /\ reqs' = <<FetchParam(from)>>
            /\ pc' = "waiting"
    /\ UNCHANGED <<svars, cvars, mvars, xvars, yvars, exHi, cursor, failedIds>>

\* update() once collect_symbol has returned batch: write, then the hot
\* snapshot; an exception of either ends in update's except clause.
\* (c: the cycle record the result is entered in)
Commit(c, batch, wfault, hfault) ==
    IF NothingCollected(batch)
    THEN /\ wfault = "none" /\ hfault = "none"
         /\ cyc' = [c EXCEPT !.result = "ok"]
         /\ UNCHANGED <<main, hot, failedIds>>
    ELSE \E w \in {WriteOutcome(main, GoodFrame(batch), TRUE, TRUE, TRUE, wfault)} :
         /\ wfault = "load" => main.st = "ok"
         /\ wfault \in {"open", "mid"} => w.err = "io"
         /\ main' = w.file
         /\ IF w.ok
            THEN \E h \in {HotOutcome(w.file, hot, HotWindow, hfault)} :
                 /\ hfault \in {"open", "mid"} => h.err = "io"
                 /\ hot' = h.file
                 /\ cyc' = [Written(c, batch) EXCEPT
                                 !.result = IF h.ok THEN "ok" ELSE "error"]
                 /\ failedIds' = failedIds
            ELSE /\ hfault = "none"
                 /\ hot' = hot
                 /\ cyc' = [Written(c, batch) EXCEPT !.result = "error"]
                 /\ failedIds' = failedIds \cup IdsOf(batch)

\* The response to the request in flight arrives and the loop of
\* collect_symbol runs on to its next request, or to the end of update()'s
\* work on the symbol.
Fetch(wfault, hfault) ==
    /\ pc = "waiting"
    /\ \E page \in {ExchangePage(FetchParam(fromId), PageSize)} :
          IF page = <<>>
          THEN \* no new trades: the loop is left
               /\ pc' = "idle"
               /\ fromId' = {}
               /\ allTrades' = <<>>
               /\ Commit(Paged(cyc, page), allTrades, wfault, hfault)
               /\ UNCHANGED <<cursor, reqs>>
          ELSE \E lastId \in {MaxOf(IdsOf(page))} :
               /\ cursor' = {lastId}
               /\ IF CaughtUp(page)
                  THEN \* caught up: the loop is left
                       /\ pc' = "idle"
                       /\ fromId' = {}
                       /\ allTrades' = <<>>
                       /\ Commit(Paged(cyc, page), Concat(allTrades, page), wfault, hfault)
                       /\ UNCHANGED reqs
                  ELSE \* a full page: the next request is sent
                       /\ wfault = "none" /\ hfault = "none"
                       /\ allTrades' = Concat(allTrades, page)
                       /\ fromId' = NextFrom(fromId, lastId)
                       /\ reqs' = Append(reqs, FetchParam(NextFrom(fromId, lastId)))
                       /\ cyc' = Paged(cyc, page)
                       /\ UNCHANGED <<main, hot, pc, failedIds>>
    /\ UNCHANGED <<last, cvars, mvars, xvars, yvars, exHi>>

\* requests.get fails, the status is not 200, or _parse_trades raises: the
\* exception leaves collect_symbol and is caught by update()
FetchRaises ==
    /\ pc = "waiting"
    /\ pc' = "idle"
    /\ cyc' = [cyc EXCEPT !.result = "error", !.intr = (allTrades # <<>>)]
    /\ fromId' = {}
    /\ allTrades' = <<>>
    /\ UNCHANGED <<svars, cvars, mvars, xvars, yvars, exHi, cursor, reqs, failedIds>>

\* the process is restarted: a new TradesCollector, last_trade_ids = {}
Restart ==
    /\ cursor' = {}
    /\ pc' = "idle"
    /\ fromId' = {}
    /\ allTrades' = <<>>
    /\ reqs' = <<>>
    /\ cyc' = NoCycle
    /\ UNCHANGED <<svars, cvars, mvars, xvars, yvars, exHi, failedIds>>

DoBegin == \E fault \in Faults : Begin(fault)
DoFetch == \E wfault \in Faults, hfault \in Faults : Fetch(wfault, hfault)

TradesNext == NewTrade \/ DoBegin \/ DoFetch \/ FetchRaises \/ Restart
SpecTrades == Init /\ [][TradesNext]_vars

\* The poll cycle without storage faults; requests.get returns or raises, so
\* a request in flight is answered.
CycleBegin == Begin("none")
CycleFetch == Fetch("none", "none")
CycleNext == NewTrade \/ CycleBegin \/ CycleFetch \/ FetchRaises
\* Weak fairness of the answer, WF_vars(CycleFetch \/ FetchRaises), written
\* with what its ENABLED comes to: an answer is possible exactly while a
\* request is in flight.
Answerable == pc = "waiting"
SpecCycleLive ==
    /\ Init /\ [][CycleNext]_vars
    /\ ([]<>(~Answerable) \/ []<><<CycleFetch \/ FetchRaises>>_vars)


\* --------------------------------------------------- trades collector: claims
\* C2: the update() that follows a cycle cut short in mid-pagination starts
\* from the cursor committed in storage: its first request asks for the ids
\* above the highest stored one, or sends no fromId when nothing is stored.
C2_ResumeFromCommittedCursor ==
    (cyc.afterInt /\ cyc.began) => reqs[1] = FetchParam(cyc.maxStored)

\* C8: a collector that holds no cursor for the symbol and finds the highest
\* stored id X uses from_id = X: its first request carries fromId = X + 1
\* and no request of the cycle asks for an id at or below X.
C8_BootstrapFromStorage ==
    (cyc.memNone /\ cyc.began /\ cyc.maxStored # {}) =>
        \E X \in cyc.maxStored :
            /\ cyc.from = {X}
            /\ reqs[1] = {X + 1}
            /\ \A i \in 1..Len(reqs) : reqs[i] # {} /\ \A f \in reqs[i] : f > X

\* a restarted collector that pages on from the stored cursor
C8_Witness ==
    /\ cyc.memNone /\ cyc.began /\ cyc.maxStored # {}
    /\ Len(reqs) >= 2

\* C10: the trades of a batch whose write failed are in the dataset once a
\* later update() has succeeded.
C10_FailedBatchCommittedLater ==
    cyc.result = "ok" => failedIds \subseteq IdsOf(main.rows)


\* ------------------------------------------- validation, empty batches, reads

\* C16: a write of a non-empty batch that fails schema validation (a required
\* column is missing, or a column does not convert to its declared type)
\* raises, and leaves the main file and the hot file exactly as they were,
\* creating neither.
C16_InvalidBatchLeavesFiles ==
    [][(/\ last'.op = "write"
        /\ last'.arg.n > 0
        /\ (last'.arg.cols = "missing" \/ ~last'.arg.castable))
       => (~last'.ok /\ last'.err = "validation" /\ main' = main /\ hot' = hot)]_vars

\* a batch whose columns are all there but do not convert was handed to write
\* while both files existed
C16_Witness ==
    /\ last.op = "write" /\ last.err = "validation"
    /\ last.arg.n > 0 /\ last.arg.cols = "all" /\ ~last.arg.castable
    /\ main.st = "ok" /\ hot.st = "ok"

\* C18: a write of a batch with zero rows returns normally, creates no main
\* file where there was none, and leaves an existing main file and the hot
\* file unchanged.
C18_EmptyBatchIsNoOp ==
    [][(last'.op = "write" /\ last'.arg.n = 0)
       => (last'.ok /\ main' = main /\ hot' = hot)]_vars

\* an empty batch was handed to write before any file existed
C18_Witness ==
    last.op = "write" /\ last.arg.n = 0 /\ main = Absent /\ hot = Absent

\* C19: a read of a dataset whose file does not exist returns normally with
\* no rows, whatever the time range.
C19_ReadOfMissingIsEmpty ==
    (last.op = "read" /\ main.st = "absent") => (last.ok /\ last.out = <<>>)

\* a read with both ends of the range given found no file
C19_Witness ==
    /\ last.op = "read" /\ main.st = "absent"
    /\ last.arg.start # {} /\ last.arg.end # {}

\* C20: a read with a time range returns the stored rows with
\* start <= timestamp <= end (an end that is not given does not restrict),
\* all of them and no others, in the order they are stored.
C20_ReadRangeInclusive ==
    (last.op = "read" /\ last.ok /\ main.st = "ok") =>
        LET inside(i) == /\ \A lo \in last.arg.start : lo <= main.rows[i].ts
                         /\ \A hi \in last.arg.end : main.rows[i].ts <= hi
            idx == {i \in 1..Len(main.rows) : inside(i)}
        IN  /\ Len(last.out) = Cardinality(idx)
            /\ \A i \in idx :
                   last.out[Cardinality({j \in idx : j <= i})] = main.rows[i]

\* a read with start = end = 2 returned the rows stamped 2 and left out others
C20_Witness ==
    /\ last.op = "read" /\ last.ok /\ main.st = "ok"
    /\ last.arg.start = {2} /\ last.arg.end = {2}
    /\ last.out # <<>>
    /\ Len(last.out) < Len(main.rows)


\* ------------------------------------------------- pagination and from_id

\* C14: in a cycle, a response of exactly PageSize trades is followed by one
\* more request, which asks for the trades after the highest id of that
\* response; a response of fewer trades, none included, is the last of the
\* cycle and no request follows it.
C14_PaginationRule ==
    \A i \in 1..Len(cyc.pages) :
       IF cyc.pages[i].n = PageSize
       THEN /\ Len(reqs) >= i + 1
            /\ \A m \in cyc.pages[i].max : reqs[i + 1] = {m + 1}
            /\ (i = Len(cyc.pages) /\ pc = "waiting") => fromId = cyc.pages[i].max
       ELSE /\ cyc.pages[i].n < PageSize
            /\ i = Len(cyc.pages)
            /\ Len(reqs) = i
            /\ pc = "idle"

\* a cycle got a full response and then an empty one
C14_Witness ==
    /\ Len(cyc.pages) = 2
    /\ cyc.pages[1].n = PageSize
    /\ cyc.pages[2].n = 0
    /\ Len(reqs) = 2

\* C15: at the start of a cycle from_id is the id the collector remembers,
\* if it remembers one; else the highest id stored, if any is stored; else
\* none, and then the first request carries no fromId.
C15_FromIdPriority ==
    cyc.began =>
        /\ cyc.from = (IF cyc.mem # {} THEN cyc.mem
                        ELSE IF cyc.maxStored # {} THEN cyc.maxStored
                        ELSE {})
        /\ (cyc.from = {}) = (reqs[1] = {})

\* a cycle began while the collector remembered an id other than the highest
\* one stored
C15_Witness ==
    /\ cyc.began
    /\ cyc.mem # {} /\ cyc.maxStored # {} /\ cyc.mem # cyc.maxStored


\* ------------------------------------------------------ prices and quantities

\* Trade rows with the price and the quantity _parse_trades gives them:
\* float(p) and float(q) of the response, whatever their sign.
Amounts == {0, 1}
PricedRows == [id : {1, 2}, ts : {1}, px : Amounts, qty : Amounts]
PricedFrames == {GoodFrame(b) : b \in SeqsUpTo(PricedRows, MaxBatch - 1)}

\* TradesCollector.update writes what _parse_trades returned, with TRADE_SCHEMA
DoWriteP == \E df \in PricedFrames : Write(df, "none", FALSE)

PriceNext == DoWriteP \/ DoRead
SpecPrice == Init /\ [][PriceNext]_vars

\* C17: no stored trade row has a price or a quantity that is not positive.
C17_StoredAmountsPositive ==
    main.st = "ok" =>
        \A i \in 1..Len(main.rows) : main.rows[i].px > 0 /\ main.rows[i].qty > 0


\* ------------------------------------------ update() over a list of symbols

\* what collect_symbol may come back with: an exception, or a batch
CollectResults ==
    {[ok |-> FALSE, rows |-> <<>>]} \cup
    {[ok |-> TRUE, rows |-> b] : b \in SeqsUpTo({Trade(1), Trade(2)}, 1)}

\* what collect_snapshot may come back with: an exception, an empty frame (a
\* book with an empty side), or one row per tick size
SnapshotResults == {"raise", "invalid", "rows"}

\* the row of a snapshot taken at t, for the one tick size of the default
\* configuration; id stands for the dedup key (timestamp, tick_size)
BookRow(t) == [id |-> t, ts |-> t]

\* the loop over self.symbols moves on; after the last symbol update() returns
NextSymbol(r) ==
    [r EXCEPT !.i = @ + 1, !.phase = IF r.i = Len(Symbols) THEN "done" ELSE @]

\* (an update() without the try/except around a symbol)
OnErrorAborts(r, sym) ==
    [r EXCEPT !.failed = @ \cup {sym}, !.raised = TRUE, !.phase = "done"]

\* TradesCollector.update, except clause: stats[symbol] = {'error': str(e)}
OnError(r, sym) ==
    NextSymbol([r EXCEPT !.failed = @ \cup {sym}, !.stats[sym] = "error"])

\* TradesCollector.update: stats[symbol] = {'rows': ..., ...}
OnRows(r, sym) == NextSymbol([r EXCEPT !.stats[sym] = "rows"])

\* update() of the trades collector is called
TradesUpdate ==
    /\ run.phase \in {"idle", "done"}
    /\ run' = [NoRun EXCEPT !.kind = "trades", !.phase = "collect", !.i = 1]
    /\ UNCHANGED <<svars, cvars, tvars, xvars, yvars, ds, hs>>

\* The body of the loop of TradesCollector.update for the next symbol:
\* collect_symbol, storage.write, maintain_hot_snapshot, and the entry of
\* stats, inside one try/except.
TradesSymbol(res, wfault, hfault) ==
    /\ run.kind = "trades" /\ run.phase = "collect"
    /\ \E sym \in {Symbols[run.i]} :
       \E r \in {[run EXCEPT !.tried = @ \cup {sym}]} :
          IF ~res.ok \/ res.rows = <<>>
          THEN /\ wfault = "none" /\ hfault = "none"
               /\ run' = IF res.ok THEN OnRows(r, sym) ELSE OnError(r, sym)
               /\ UNCHANGED <<ds, hs>>
          ELSE \E w \in {WriteOutcome(ds[<<"trades", sym>>], GoodFrame(res.rows),
                                       TRUE, TRUE, TRUE, wfault)} :
               /\ wfault = "load" => ds[<<"trades", sym>>].st = "ok"
               /\ wfault \in {"open", "mid"} => w.err = "io"
               /\ ds' = [ds EXCEPT ![<<"trades", sym>>] = w.file]
               /\ IF w.ok
                  THEN \E h \in {HotOutcome(w.file, hs[<<"trades", sym>>],
                                             HotWindow, hfault)} :
                       \E c \in {[r EXCEPT !.written = @ \cup {sym},
                                            !.committed = @ \cup {sym}]} :
                       /\ hfault \in {"open", "mid"} => h.err = "io"
                       /\ hs' = [hs EXCEPT ![<<"trades", sym>>] = h.file]
                       /\ run' = IF h.ok THEN OnRows(c, sym) ELSE OnError(c, sym)
                  ELSE /\ hfault = "none"
                       /\ hs' = hs
                       /\ run' = OnError([r EXCEPT !.written = @ \cup {sym}], sym)
    /\ UNCHANGED <<svars, cvars, tvars, xvars, yvars>>

\* update() of the order-book collector is called; collect_all stamps the
\* snapshots of the cycle with the time t
BookUpdate(t) ==
    /\ run.phase \in {"idle", "done"}
    /\ run' = [NoRun EXCEPT !.kind = "orderbook", !.phase = "collect", !.i = 1,
                            !.t = t]
    /\ UNCHANGED <<svars, cvars, tvars, xvars, yvars, ds, hs>>

\* The body of the loop of collect_all for the next symbol; after the last
\* symbol update() returns {} if no snapshot was collected, and goes on to
\* save the snapshots otherwise.
BookCollect(res) ==
    /\ run.kind = "orderbook" /\ run.phase = "collect"
    /\ \E sym \in {Symbols[run.i]} :
       \E snaps \in {IF res = "rows" THEN Append(run.snaps, sym) ELSE run.snaps} :
          run' = [run EXCEPT
                    !.tried = @ \cup {sym},
                    !.failed = IF res = "raise" THEN @ \cup {sym} ELSE @,
                    !.snaps = snaps,
                    !.i = @ + 1,
                    !.phase = IF run.i < Len(Symbols) THEN "collect"
                              ELSE IF snaps = <<>> THEN "done" ELSE "save",
                    !.j = IF run.i = Len(Symbols) /\ snaps # <<>> THEN 1 ELSE @]
    /\ UNCHANGED <<svars, cvars, tvars, xvars, yvars, ds, hs>>

\* The body of the loop of OrderBookCollector.update for the next symbol of
\* df['symbol'].unique(): storage.write and the entry of stats. An exception
\* of storage.write leaves update().
BookSave(wfault) ==
    /\ run.kind = "orderbook" /\ run.phase = "save"
    /\ \E sym \in {run.snaps[run.j]} :
       \E w \in {WriteOutcome(ds[<<"orderbook", sym>>], GoodFrame(<<BookRow(run.t)>>),
                               FALSE, TRUE, TRUE, wfault)} :
          /\ wfault = "load" => ds[<<"orderbook", sym>>].st = "ok"
          /\ wfault \in {"open", "mid"} => w.err = "io"
          /\ ds' = [ds EXCEPT ![<<"orderbook", sym>>] = w.file]
          /\ run' = IF w.ok
                    THEN [run EXCEPT
                            !.written = @ \cup {sym},
                            !.committed = @ \cup {sym},
                            !.stats[sym] = "rows",
                            !.j = @ + 1,
                            !.phase = IF run.j = Len(run.snaps) THEN "done" ELSE @]
                    ELSE [run EXCEPT
                            !.written = @ \cup {sym},
                            !.failed = @ \cup {sym},
                            !.raised = TRUE,
                            !.phase = "done"]
    /\ UNCHANGED <<svars, cvars, tvars, xvars, yvars, hs>>

\* the faults of a call followed here: those that leave the file as it was
\* (what a fault in the middle of to_parquet does to a file is followed for
\* one dataset in Spec)
CleanFaults == Faults \ {"mid"}

DoTradesSymbol ==
    \E res \in CollectResults, wfault \in CleanFaults, hfault \in CleanFaults :
        TradesSymbol(res, wfault, hfault)
DoBookUpdate == \E t \in Tss : BookUpdate(t)
DoBookCollect == \E res \in SnapshotResults : BookCollect(res)
DoBookSave == \E wfault \in CleanFaults : BookSave(wfault)

MultiNext ==
    TradesUpdate \/ DoTradesSymbol \/ DoBookUpdate \/ DoBookCollect \/ DoBookSave
SpecMulti == Init /\ [][MultiNext]_vars

\* C11: when update() of the trades collector is over, it has returned (not
\* raised), collection was begun for every configured symbol whatever failed
\* for the symbols before it, and the report has an entry for every
\* configured symbol: 'error' for the symbols something raised for, the row
\* statistics for the others.
C11_TradesUpdateIsolatesSymbols ==
    (run.kind = "trades" /\ run.phase = "done") =>
        /\ ~run.raised
        /\ run.tried = SymbolSet
        /\ \A s \in SymbolSet :
              run.stats[s] = (IF s \in run.failed THEN "error" ELSE "rows")

\* the first symbol failed in storage.write, and the second was collected
\* and committed all the same
C11_Witness ==
    /\ run.kind = "trades" /\ run.phase = "done"
    /\ run.failed = {Symbols[1]}
    /\ Symbols[1] \in run.written
    /\ Symbols[2] \in run.committed
    /\ run.stats[Symbols[2]] = "rows"

\* C12: when update() of the order-book collector is over, it has returned a
\* report, storage.write was called for every symbol a snapshot was
\* collected of, and every symbol something raised for has an 'error' entry
\* in the report.
C12_BookUpdateIsolatesSymbols ==
    (run.kind = "orderbook" /\ run.phase = "done") =>
        /\ ~run.raised
        /\ \A k \in 1..Len(run.snaps) : run.snaps[k] \in run.written
        /\ \A s \in run.failed : run.stats[s] = "error"

\* C13: when an update() of either collector is over in which nothing raised,
\* read_hot of every dataset the cycle committed rows to returns the last
\* HotWindow rows of the dataset.
C13_HotFollowsEveryCommit ==
    (run.phase = "done" /\ ~run.raised /\ run.failed = {}) =>
        \A s \in run.committed :
            /\ ReadHotOutcome(hs[<<run.kind, s>>], "none").ok
            /\ ReadHotOutcome(hs[<<run.kind, s>>], "none").rows
                  = Tail_(ReadOutcome(ds[<<run.kind, s>>], "none").rows, HotWindow)


\* ---------------------------------------------------- the hot file as a cache

\* C21: read_hot of a key that has no hot file returns normally with no rows,
\* whatever the main file holds.
C21_ReadHotNeverFallsBack ==
    (last.op = "read_hot" /\ hot.st = "absent") => (last.ok /\ last.out = <<>>)

\* read_hot was called after a write and before any maintain_hot_snapshot
C21_Witness ==
    /\ last.op = "read_hot" /\ hot.st = "absent"
    /\ main.st = "ok" /\ main.rows # <<>>

\* C22: a maintain_hot_snapshot that returns normally leaves at most
\* window_size rows in the hot file; repeated with the same window right
\* after a maintain_hot_snapshot it leaves the hot file as it is; and called
\* with the same window right after the hot file was removed, it leaves the
\* content the removed file had.
C22_HotIsRebuiltFromMain ==
    [][Maintained(last') =>
          /\ hot'.st = "ok"
          /\ Len(hot'.rows) <= last'.w
          /\ (Maintained(last) /\ last.w = last'.w) => hot' = hot
          /\ (last.op = "delete_hot" /\ last.err = "none" /\ last.w = last'.w)
                => hot'.rows = last.out]_vars

\* the hot file was rebuilt after its removal, from a dataset longer than
\* the window
C22_Witness ==
    /\ Maintained(last) /\ last.arg.rebuild
    /\ hot.rows # <<>>
    /\ Len(hot.rows) < Len(main.rows)


\* ------------------------------------------------- order-book aggregation

\* Prices and tick sizes are counted in tenths: 15 is the string "1.5", the
\* tick size 1 is 0.1 and the tick size 10 is 1.0 (both are in
\* DEFAULT_TICK_SIZES). The prices followed here are the multiples of 0.5,
\* which float() represents exactly; 0.1 it does not: the double of 0.1 is
\* larger than one tenth by less than one part in 2^53.
MaxLevels == 3
MaxNumLevels == 2
TickSizes == {1, 10}
ExactTicks == {10}
BookPrices == {5, 10, 15, 20}
Quantities == {1, 2}
RawLevels == [p : BookPrices, q : Quantities]

\* one side of a response of /api/v3/depth: bids from the highest price
\* down, asks from the lowest price up, no price twice
RawSide(isBid) ==
    {s \in SeqsUpTo(RawLevels, MaxLevels) :
        \A i \in 1..(Len(s) - 1) :
            IF isBid THEN s[i].p > s[i + 1].p ELSE s[i].p < s[i + 1].p}

\* (the floor of the quotient of the decimal values)
FloorDivDecimal(price, tick) == price \div tick

\* price // tick_size on floats: the floor of the exact quotient of the two
\* doubles. With an exact tick that is the floor of the decimal quotient.
\* With 0.1 the divisor is a little more than a tenth, so a positive price
\* that is a whole number of tenths gives a quotient just under that number.
FloorDiv(price, tick) ==
    IF tick \in ExactTicks \/ price % tick # 0 \/ price <= 0
    THEN price \div tick
    ELSE (price \div tick) - 1

\* level = (price // tick_size) * tick_size
Bucket(price, tick) == FloorDiv(price, tick) * tick

RECURSIVE SumQty(_, _)
SumQty(levels, I) ==
    IF I = {} THEN 0
    ELSE LET i == CHOOSE j \in I : TRUE IN levels[i].q + SumQty(levels, I \ {i})

\* the dict aggregated after the loop over raw_levels: level -> summed qty
Aggregated(levels, tick) ==
    [b \in {Bucket(levels[i].p, tick) : i \in DOMAIN levels} |->
        SumQty(levels, {i \in DOMAIN levels : Bucket(levels[i].p, tick) = b})]

MinOf(S) == CHOOSE x \in S : \A y \in S : x <= y

\* (a sort that is ascending for both sides)
RECURSIVE TopLevelsAscending(_, _, _, _)
TopLevelsAscending(d, keys, isBid, n) ==
    IF keys = {} \/ n = 0 THEN <<>>
    ELSE <<[price |-> MinOf(keys), qty |-> d[MinOf(keys)]]>>
         \o TopLevelsAscending(d, keys \ {MinOf(keys)}, isBid, n - 1)

\* sorted(aggregated.items(), reverse=is_bid)[:num_levels], over the levels
\* keys of the dict d
RECURSIVE TopLevels(_, _, _, _)
TopLevels(d, keys, isBid, n) ==
    IF keys = {} \/ n = 0 THEN <<>>
    ELSE LET k == IF isBid THEN MaxOf(keys) ELSE MinOf(keys)
         IN  <<[price |-> k, qty |-> d[k]]>> \o TopLevels(d, keys \ {k}, isBid, n - 1)

\* the loop that computes cum_qty and cum_usd
RECURSIVE Cumulative(_, _, _)
Cumulative(levels, cumQty, cumUsd) ==
    IF levels = <<>> THEN <<>>
    ELSE LET l == Head(levels)
         IN  <<[price |-> l.price, qty |-> l.qty, cum_qty |-> cumQty + l.qty,
                cum_usd |-> cumUsd + l.price * l.qty]>>
             \o Cumulative(Tail(levels), cumQty + l.qty, cumUsd + l.price * l.qty)

\* OrderBookCollector._aggregate_levels
AggregateLevels(levels, tick, isBid, n) ==
    Cumulative(TopLevels(Aggregated(levels, tick), DOMAIN Aggregated(levels, tick),
                         isBid, n), 0, 0)

\* _aggregate_levels is called
Aggregate(levels, tick, isBid, n) ==
    /\ ~agg.taken
    /\ agg' = [taken |-> TRUE, levels |-> levels, tick |-> tick, isBid |-> isBid,
               n |-> n, buckets |-> Aggregated(levels, tick),
               out |-> AggregateLevels(levels, tick, isBid, n)]
    /\ UNCHANGED <<svars, cvars, tvars, mvars, snap, par, api, yvars>>

\* and has returned
AggregateReturns ==
    /\ agg.taken
    /\ agg' = NoAgg
    /\ UNCHANGED <<svars, cvars, tvars, mvars, snap, par, api, yvars>>

DoAggregate ==
    \E isBid \in BOOLEAN, tick \in TickSizes, n \in 1..MaxNumLevels :
        \E levels \in RawSide(isBid) : Aggregate(levels, tick, isBid, n)

AggNext == DoAggregate \/ AggregateReturns
SpecAgg == Init /\ [][AggNext]_vars

\* C24: every raw level at price p is counted in the bucket floor(p/T)*T, and
\* the quantity of a bucket is the sum of the quantities of the raw levels
\* whose price is in it (so the quantities of the buckets add up to the
\* quantities of the raw levels).
C24_BucketIsFloorOfPrice ==
    agg.taken =>
        LET bucketOf(i) == FloorDivDecimal(agg.levels[i].p, agg.tick) * agg.tick
            all == DOMAIN agg.levels
        IN  /\ DOMAIN agg.buckets = {bucketOf(i) : i \in all}
            /\ \A b \in DOMAIN agg.buckets :
                  agg.buckets[b] = SumQty(agg.levels, {i \in all : bucketOf(i) = b})

\* C25: _aggregate_levels returns at most num_levels levels, which are the
\* buckets nearest the top of the book, bids from the highest bucket price
\* strictly down and asks from the lowest strictly up; at level k cum_qty is
\* the sum of qty of the levels 1..k and cum_usd the sum of price * qty of
\* the levels 1..k, and cum_qty never decreases with k.
C25_LevelsSortedAndCumulative ==
    agg.taken =>
        LET out == agg.out
            shown == {out[k].price : k \in DOMAIN out}
            above(a, b) == IF agg.isBid THEN a > b ELSE a < b
            runQty[k \in 0..Len(out)] == IF k = 0 THEN 0 ELSE runQty[k - 1] + out[k].qty
            runUsd[k \in 0..Len(out)] ==
                IF k = 0 THEN 0 ELSE runUsd[k - 1] + out[k].price * out[k].qty
        IN  /\ Len(out) <= agg.n
            /\ Len(out) = agg.n \/ shown = DOMAIN agg.buckets
            /\ shown \subseteq DOMAIN agg.buckets
            /\ \A k \in DOMAIN out :
                  /\ out[k].qty = agg.buckets[out[k].price]
                  /\ out[k].cum_qty = runQty[k]
                  /\ out[k].cum_usd = runUsd[k]
                  /\ k > 1 => /\ above(out[k - 1].price, out[k].price)
                              /\ out[k - 1].cum_qty <= out[k].cum_qty
            /\ \A b \in DOMAIN agg.buckets \ shown, k \in DOMAIN out :
                  above(out[k].price, b)

\* the bids of a book with three buckets, cut to two levels
C25_Witness ==
    /\ agg.taken /\ agg.isBid
    /\ agg.n = 2 /\ Len(agg.out) = 2
    /\ Cardinality(DOMAIN agg.buckets) = 3


\* --------------------------------------- the order-book cycle of one symbol

\* The responses followed here: each side is empty or has one level, whose
\* price may be what no exchange should send (zero, negative).
BidSides == {<<>>} \cup {<<[p |-> x, q |-> 1]>> : x \in {-5, 0, 10}}
AskSides == {<<>>} \cup {<<[p |-> x, q |-> 1]>> : x \in {0, 15}}
Books == [bids : BidSides, asks : AskSides]

\* self.tick_sizes.get(symbol, [1.0]) as configured: a list of distinct tick
\* sizes, or nothing
TickConfigs == {<<>>, <<1>>, <<10>>, <<1, 10>>}

\* tick_sizes of collect_snapshot: [1.0] when nothing is configured
EffectiveTicks(cfg) == IF cfg = <<>> THEN <<10>> ELSE cfg

\* best_bid, best_ask: the price of the first level, 0 for an empty side
BestOf(side) == IF side = <<>> THEN 0 ELSE side[1].p

\* the row of a snapshot for one tick size; id stands for the dedup key
\* (timestamp, tick_size) and orders as it does within one timestamp
SnapshotRow(t, tick, book) ==
    [id |-> t * 100 + tick, ts |-> t, tick |-> tick,
     best_bid |-> BestOf(book.bids), best_ask |-> BestOf(book.asks),
     bids |-> AggregateLevels(book.bids, tick, TRUE, MaxNumLevels),
     asks |-> AggregateLevels(book.asks, tick, FALSE, MaxNumLevels)]

\* (a snapshot with a row for the first tick size only)
CollectSnapshotFirstTick(book, ticks, t) ==
    IF BestOf(book.bids) = 0 \/ BestOf(book.asks) = 0 THEN <<>>
    ELSE <<SnapshotRow(t, ticks[1], book)>>

\* OrderBookCollector.collect_snapshot: the rows of the frame it returns
CollectSnapshot(book, ticks, t) ==
    IF BestOf(book.bids) = 0 \/ BestOf(book.asks) = 0 THEN <<>>
    ELSE [i \in 1..Len(ticks) |-> SnapshotRow(t, ticks[i], book)]

\* OrderBookCollector.update for one symbol: collect_snapshot at the time t,
\* then, unless the frame is empty, storage.write with the dedup and sort
\* columns (timestamp, tick_size) and no schema
BookCycle(book, cfg, t) ==
    \E rows \in {CollectSnapshot(book, EffectiveTicks(cfg), t)} :
    \E w \in {WriteOutcome(main, GoodFrame(rows), FALSE, TRUE, TRUE, "none")} :
        /\ main' = w.file
        /\ snap' = [taken |-> TRUE, book |-> book, ticks |-> EffectiveTicks(cfg),
                    t |-> t, rows |-> rows, before |-> main]
        /\ UNCHANGED <<hot, last, cvars, tvars, mvars, agg, par, api, yvars>>

DoBookCycle == \E book \in Books, cfg \in TickConfigs, t \in Tss : BookCycle(book, cfg, t)

BookNext == DoBookCycle
SpecBook == Init /\ [][BookNext]_vars

\* both sides have a best price and both best prices are positive
ValidBook(book) ==
    /\ book.bids # <<>> /\ book.asks # <<>>
    /\ book.bids[1].p > 0 /\ book.asks[1].p > 0

\* C23: a cycle whose book lacks a best bid or a best ask, or has a best
\* price that is not positive, makes no row for the symbol and leaves its
\* dataset as it was.
C23_InvalidBookMakesNoRow ==
    (snap.taken /\ ~ValidBook(snap.book)) => (snap.rows = <<>> /\ main = snap.before)

PageRows(pg) == [k \in 1..pg.n |-> Trade(MaxOf(pg.max \cup {0}) - pg.n + k)]

RECURSIVE AllPages(_)
AllPages(pages) ==
    IF pages = <<>> THEN <<>> ELSE PageRows(Head(pages)) \o AllPages(Tail(pages))

\* the cycle is over
Ended == pc = "idle" /\ cyc.result \in {"ok", "error"}

\* C27: a cycle calls storage.write at most once, never while a request is
\* in flight, and not at all when it fetched no rows; the batch it writes is
\* all the pages of the cycle, one after the other in the order fetched; and
\* a cycle that ends on a short page having fetched rows does write.
C27_OneWriteAfterPagination ==
    /\ cyc.writes <= 1
    /\ pc = "waiting" => cyc.writes = 0
    /\ AllPages(cyc.pages) = <<>> => cyc.writes = 0
    /\ cyc.writes = 1 => cyc.batch = AllPages(cyc.pages)
    /\ (/\ Ended
        /\ cyc.pages # <<>>
        /\ cyc.pages[Len(cyc.pages)].n < PageSize
        /\ AllPages(cyc.pages) # <<>>) => cyc.writes = 1

\* a cycle wrote the rows of a full page and of the short page after it
C27_Witness ==
    /\ Ended /\ cyc.writes = 1
    /\ Len(cyc.pages) = 2
    /\ cyc.pages[2].n > 0
    /\ Len(cyc.batch) = PageSize + cyc.pages[2].n

\* C28: a cycle that finds no trade on the exchange beyond the id its
\* collector remembers, and a cycle that follows a cycle with result "ok"
\* with the exchange as it was when that one began, call storage.write not
\* once and leave the dataset as it was; and no id is ever stored twice.
C28_UpdateIsIdempotent ==
    /\ (Ended /\ cyc.mem # {} /\ \A m \in cyc.mem : exHi <= m) =>
          (cyc.writes = 0 /\ main = cyc.mainAt)
    /\ (Ended /\ cyc.prev.ok /\ cyc.prev.ex = exHi) =>
          (cyc.writes = 0 /\ main = cyc.mainAt)
    /\ \A id \in IdsOf(main.rows) : Count(main.rows, id) = 1

\* a second cycle ran to its end against the exchange the first one had
\* emptied into the dataset
C28_Witness ==
    /\ Ended /\ cyc.began /\ cyc.result = "ok"
    /\ cyc.prev.ok /\ cyc.prev.ex = exHi
    /\ exHi > PageSize
    /\ main.st = "ok" /\ Len(main.rows) = exHi


\* ------------------------------------------- two collector threads, one engine

\* the symbol after position i of the list; the while True loop of the
\* thread begins the list again after the last one
NextIndex(i) == IF i = Len(Symbols) THEN 1 ELSE i + 1

\* what collect_symbol hands update() in the trades thread
ParBatches == SeqsUpTo({Trade(1), Trade(2)}, 1)

\* The trades thread, for the next symbol: collect_symbol has returned rows;
\* with rows storage.write is entered, the file of the symbol is loaded and
\* merged with them; without rows the loop moves on.
ParTradesStart(rows) ==
    /\ par.tr.key = {}
    /\ \E k \in {FilePath("trades", Symbols[par.tr.i])} :
          IF rows = <<>>
          THEN par' = [par EXCEPT !.tr.i = NextIndex(@)]
          ELSE \E w \in {WriteOutcome(ds[k], GoodFrame(rows), TRUE, TRUE, TRUE, "none")},
                  q \in {WriteOutcome(par.seq[k], GoodFrame(rows), TRUE, TRUE, TRUE, "none")} :
               par' = [par EXCEPT
                         !.tr.key = {k}, !.tr.buf = w.file,
                         !.seq[k] = q.file,
                         !.seqHot[k] = HotOutcome(q.file, @, HotWindow, "none").file]
    /\ UNCHANGED <<svars, cvars, tvars, mvars, agg, snap, api, yvars>>

\* The trades thread: to_parquet puts the merged rows into the file,
\* maintain_hot_snapshot follows, and the loop moves on.
ParTradesFinish ==
    /\ par.tr.key # {}
    /\ \E k \in par.tr.key :
          /\ ds' = [ds EXCEPT ![k] = par.tr.buf]
          /\ hs' = [hs EXCEPT ![k] = HotOutcome(par.tr.buf, @, HotWindow, "none").file]
    /\ par' = [par EXCEPT !.tr.key = {}, !.tr.buf = Absent, !.tr.i = NextIndex(@)]
    /\ UNCHANGED <<svars, cvars, tvars, run, agg, snap, api, yvars>>

\* The order-book thread, for the next symbol of its snapshots (stamped t
\* when the cycle began): storage.write is entered, the file of the symbol
\* is loaded and merged with the row.
ParBookStart(t) ==
    /\ par.ob.key = {}
    /\ \E k \in {FilePath("orderbook", Symbols[par.ob.i])} :
       \E ts \in {IF par.ob.i = 1 THEN t ELSE par.ob.t} :
       \E w \in {WriteOutcome(ds[k], GoodFrame(<<BookRow(ts)>>), FALSE, TRUE, TRUE, "none")},
          q \in {WriteOutcome(par.seq[k], GoodFrame(<<BookRow(ts)>>), FALSE, TRUE, TRUE, "none")} :
          par' = [par EXCEPT !.ob.key = {k}, !.ob.buf = w.file, !.ob.t = ts,
                             !.seq[k] = q.file]
    /\ UNCHANGED <<svars, cvars, tvars, mvars, agg, snap, api, yvars>>

\* The order-book thread: to_parquet puts the merged rows into the file and
\* the loop moves on.
ParBookFinish ==
    /\ par.ob.key # {}
    /\ \E k \in par.ob.key : ds' = [ds EXCEPT ![k] = par.ob.buf]
    /\ par' = [par EXCEPT !.ob.key = {}, !.ob.buf = Absent, !.ob.i = NextIndex(@)]
    /\ UNCHANGED <<svars, cvars, tvars, hs, run, agg, snap, api, yvars>>

DoParTradesStart == \E rows \in ParBatches : ParTradesStart(rows)
DoParBookStart == \E t \in Tss : ParBookStart(t)

ParNext == DoParTradesStart \/ ParTradesFinish \/ DoParBookStart \/ ParBookFinish
SpecPar == Init /\ [][ParNext]_vars

\* C29: a step of the trades thread leaves every file of data type orderbook
\* as it was, a step of the order-book thread every file of data type trades;
\* no file has both threads writing it at once; and every file no write is
\* working on, hot files included, is what the same calls leave when each
\* runs to its end before the next begins.
C29_ThreadsDoNotInterfere ==
    [][/\ par'.tr # par.tr =>
            \A k \in Keys : k[1] # "trades" => ds'[k] = ds[k] /\ hs'[k] = hs[k]
       /\ par'.ob # par.ob =>
            \A k \in Keys : k[1] # "orderbook" => ds'[k] = ds[k] /\ hs'[k] = hs[k]
       /\ par'.tr.key \cap par'.ob.key = {}
       /\ \A k \in Keys \ (par'.tr.key \cup par'.ob.key) :
              ds'[k] = par'.seq[k] /\ hs'[k] = par'.seqHot[k]]_vars

\* both threads are inside storage.write for the same symbol, each on a
\* dataset that holds rows already
C29_Witness ==
    /\ \E s \in SymbolSet : /\ par.tr.key = {<<"trades", s>>}
                            /\ par.ob.key = {<<"orderbook", s>>}
                            /\ ds[<<"trades", s>>].rows # <<>>
                            /\ ds[<<"orderbook", s>>].rows # <<>>
    /\ par.tr.buf # ds[<<"trades", Symbols[par.tr.i]>>]
    /\ par.ob.buf # ds[<<"orderbook", Symbols[par.ob.i]>>]


\* ------------------------------------------------------------------ query API

\* the query parameters limit and offset of a request
ApiLimits == {1, 2}
ApiOffsets == {0, 1}

\* tick_size of a request to /orderbook: {} when it is not given
ApiTicks == {{}} \cup {{x} : x \in TickSizes}

\* what pd.read_parquet raises when it cannot read the file, "none" when
\* it can
ReadErrors == {"none", "ArrowInvalid", "OSError", "FileNotFoundError"}

\* the trades the trades dataset is filled with here
ApiTrades == {Trade(1), Trade(2), Trade(3)}

\* the book of the snapshots the order-book dataset is filled with here
ApiBook == [bids |-> <<[p |-> 10, q |-> 1]>>, asks |-> <<[p |-> 15, q |-> 1]>>]

\* the dataset holds order-book snapshots / trades
HoldsBook(file) == file.rows # <<>> /\ "tick" \in DOMAIN file.rows[1]
HoldsTrades(file) == file.rows # <<>> /\ "tick" \notin DOMAIN file.rows[1]

\* df.iloc[a:b]
ILoc(s, a, b) == SubSeq(s, a + 1, IF b < Len(s) THEN b ELSE Len(s))

\* df[df['tick_size'] == tick_size], when tick_size is given
RECURSIVE SelectTick(_, _)
SelectTick(s, tick) ==
    IF s = <<>> THEN <<>>
    ELSE IF \A x \in tick : Head(s).tick = x
    THEN <<Head(s)>> \o SelectTick(Tail(s), tick)
    ELSE SelectTick(Tail(s), tick)

\* the pagination of both handlers
Paginate(s, limit, offset, tail) ==
    IF tail THEN ILoc(Tail_(s, limit + offset), offset, offset + limit)
    ELSE ILoc(s, offset, offset + limit)

\* What is raised inside the try of a handler: the exception of
\* storage.read, or the HTTPException(404) of the handler itself when the
\* frame read is empty, as it is for a dataset that does not exist.
RaisedInTry(file, exc) ==
    IF ~ReadOutcome(file, IF exc = "none" THEN "none" ELSE "load").ok THEN exc
    ELSE IF ReadOutcome(file, "none").rows = <<>> THEN "HTTPException"
    ELSE "none"

\* str(e) holds the path of the file: the message of an error of the
\* operating system names the file it could not open
MessageHasPath(raised) == raised = "OSError"

\* The except clauses of a handler: FileNotFoundError becomes a 404, every
\* other Exception, the HTTPException raised in the try included, a 500
\* whose detail is str(e).
ExceptClauses(raised) ==
    IF raised = "FileNotFoundError"
    THEN [status |-> 404, detail |-> "not found", path |-> FALSE]
    ELSE [status |-> 500, detail |-> IF raised = "HTTPException" THEN "str(404)"
                                     ELSE "str(e)",
          path |-> MessageHasPath(raised)]

\* a request is answered: the handler from storage.read to its response
\* (exc: what pd.read_parquet raises in this call: a torn file is not a
\* parquet file, a whole one may fail to open)
Respond(endpoint, exc, tick, start, end, limit, offset, tail) ==
    /\ exc = "ArrowInvalid" <=> main.st = "torn"
    /\ exc \in {"OSError", "FileNotFoundError"} => main.st = "ok"
    /\ \E raised \in {RaisedInTry(main, exc)} :
          IF raised = "none"
          THEN \E picked \in {SelectRange(SelectTick(main.rows, tick), start, end)} :
               api' = [taken |-> TRUE, endpoint |-> endpoint, file |-> main,
                       raised |-> raised, status |-> 200, detail |-> "none",
                       path |-> FALSE, rows |-> Paginate(picked, limit, offset, tail)]
          ELSE \E x \in {ExceptClauses(raised)} :
               api' = [taken |-> TRUE, endpoint |-> endpoint, file |-> main,
                       raised |-> raised, status |-> x.status, detail |-> x.detail,
                       path |-> x.path, rows |-> <<>>]
    /\ UNCHANGED <<svars, cvars, tvars, mvars, agg, snap, par, yvars>>

\* GET /trades/{symbol}
GetTrades ==
    /\ ~HoldsBook(main)
    /\ \E exc \in ReadErrors, start \in TimeBounds, end \in TimeBounds,
          limit \in ApiLimits, offset \in ApiOffsets, tail \in BOOLEAN :
          Respond("trades", exc, {}, start, end, limit, offset, tail)

\* GET /orderbook/{symbol}
GetOrderbook ==
    /\ ~HoldsTrades(main)
    /\ \E exc \in ReadErrors, tick \in ApiTicks,
          start \in TimeBounds, end \in TimeBounds,
          limit \in ApiLimits, offset \in ApiOffsets, tail \in BOOLEAN :
          Respond("orderbook", exc, tick, start, end, limit, offset, tail)

\* the collectors fill the dataset of the symbol: trades, or snapshots
ApiTradesWritten ==
    ~HoldsBook(main) /\ \E row \in ApiTrades : Write(GoodFrame(<<row>>), "none", FALSE)
ApiBookWritten == ~HoldsTrades(main) /\ \E t \in Tss : BookCycle(ApiBook, <<1, 10>>, t)

ApiNext == ApiTradesWritten \/ ApiBookWritten \/ WriteFails \/ GetTrades \/ GetOrderbook
SpecApi == Init /\ [][ApiNext]_vars

\* C30: a request for a symbol whose dataset does not exist is answered 404
\* "not found", and a response 500 holds no path of the data directory.
C30_NotFoundAndGenericFailure ==
    api.taken =>
        /\ api.file.st = "absent" => (api.status = 404 /\ api.detail = "not found")
        /\ api.status = 500 => ~api.path


\* ------------------------------------------------- the life of a dataset

\* StorageEngine.get_latest_timestamp: [ok, out], out the timestamp as a
\* sequence of at most one (<<>>: None)
LatestTimestamp(file, fault) ==
    IF file.st = "absent" THEN [ok |-> TRUE, out |-> <<>>]
    ELSE IF ReadFails(file, fault) THEN [ok |-> FALSE, out |-> <<>>]
    ELSE IF file.rows = <<>> THEN [ok |-> TRUE, out |-> <<>>]
    ELSE [ok |-> TRUE, out |-> <<MaxOf({file.rows[i].ts : i \in 1..Len(file.rows)})>>]

GetLatest(fault) ==
    \E r \in {LatestTimestamp(main, fault)} :
        /\ fault \in {"none", "load"}
        /\ fault = "load" => main.st = "ok"
        /\ last' = Call("get_latest_timestamp", r.ok, IF r.ok THEN "none" ELSE "load",
                        <<>>, NoArg, 0, r.out)
        /\ UNCHANGED <<main, hot, cvars, tvars, mvars, xvars, yvars>>

\* the calls of the engine on one dataset, one trade to a batch
LifeWrite == \E row \in ApiTrades : Write(GoodFrame(<<row>>), "none", FALSE)
LifeMaintain == \E w \in 1..MaxW, fault \in Faults : MaintainHot(w, fault)
DoGetLatest == \E fault \in Faults : GetLatest(fault)

LifeNext ==
    LifeWrite \/ WriteFails \/ DoReadAll \/ DoGetLatest \/ LifeMaintain \/ DoReadHot
SpecLife == Init /\ [][LifeNext]_vars

\* C31: a call of the engine never takes an id out of the dataset, and only
\* write changes the main file.
C31_DatasetNeverShrinks ==
    [][/\ IdsOf(main.rows) \subseteq IdsOf(main'.rows)
       /\ main' # main => last'.op = "write"]_vars


\* --------------------------------------------------- TradesCollector.backfill

\* the start_time and the max_trades of a call ({}: max_trades not given)
BackfillStarts == Tss
BackfillMax == {{}, {PageSize}}

\* The response of the exchange to a request with startTime: at most n
\* trades in id order, those no older than start and, when fromId is sent,
\* with that id or a higher one.
ExchangeSince(param, start, n) ==
    LET ids == {i \in 1..exHi : Trade(i).ts >= start /\ \A f \in param : i >= f}
        lo  == CHOOSE i \in ids : \A j \in ids : i <= j
        m   == IF Cardinality(ids) < n THEN Cardinality(ids) ELSE n
    IN  IF ids = {} THEN <<>> ELSE [k \in 1..m |-> Trade(lo + k - 1)]

\* (a backfill that takes up where the collector's polling is)
BackfillStartFromCursor(cur) == cur

\* backfill: from_id = None, whatever last_trade_ids holds
BackfillStart(cur) == {}

\* if from_id: params['fromId'] = from_id + 1
BackfillParam(from) ==
    IF from = {} \/ MaxOf(from \cup {0}) = 0 THEN {} ELSE {MaxOf(from) + 1}

\* backfill is called and sends its first request
BackfillBegin(start, maxTrades) ==
    /\ bf.pc = "idle" /\ pc = "idle"
    /\ \E from \in {BackfillStart(cursor)} :
          bf' = [NoBf EXCEPT !.pc = "waiting", !.start = start, !.maxTrades = maxTrades,
                             !.fromId = from, !.reqs = <<BackfillParam(from)>>]
    /\ UNCHANGED <<svars, cvars, tvars, mvars, xvars, col, syn, tw, fs>>

\* The response to the request in flight arrives and the loop of backfill
\* runs on to its next request or to its return.
BackfillFetch ==
    /\ bf.pc = "waiting"
    /\ \E page \in {ExchangeSince(bf.reqs[Len(bf.reqs)], bf.start, PageSize)} :
       \E b \in {[bf EXCEPT !.pages = Append(@, Len(page)), !.all = @ \o page]} :
          IF page = <<>>
          THEN bf' = [b EXCEPT !.pc = "idle", !.out = b.all]
          ELSE \E lastId \in {MaxOf(IdsOf(page))} :
               IF (\E m \in bf.maxTrades : Len(b.all) >= m) \/ Len(page) < PageSize
               THEN bf' = [b EXCEPT !.pc = "idle", !.fromId = {lastId}, !.out = b.all]
               ELSE bf' = [b EXCEPT !.fromId = {lastId},
                                    !.reqs = Append(@, BackfillParam({lastId}))]
    /\ UNCHANGED <<svars, cvars, tvars, mvars, xvars, col, syn, tw, fs>>

\* requests.get fails, the status is not 200, or _parse_trades raises
BackfillRaises ==
    /\ bf.pc = "waiting"
    /\ bf' = [bf EXCEPT !.pc = "idle", !.raised = TRUE]
    /\ UNCHANGED <<svars, cvars, tvars, mvars, xvars, col, syn, tw, fs>>

DoBackfillBegin ==
    \E start \in BackfillStarts, maxTrades \in BackfillMax : BackfillBegin(start, maxTrades)

\* the poll cycle of the same collector, between calls of backfill
BfCycleBegin == bf.pc = "idle" /\ Begin("none")
BfCycleFetch == Fetch("none", "none")

BackfillNext ==
    NewTrade \/ BfCycleBegin \/ BfCycleFetch \/ DoBackfillBegin \/ BackfillFetch
        \/ BackfillRaises
SpecBackfill == Init /\ [][BackfillNext]_vars

\* C32: backfill sends a further request only after a full page and none
\* after a page that is not full; its first request carries no fromId,
\* whatever the collector remembers; and no step of it changes the
\* remembered id, the dataset or the hot file.
C32_BackfillIsIndependent ==
    [][/\ bf' # bf => (cursor' = cursor /\ main' = main /\ hot' = hot)
       /\ Len(bf'.reqs) \in {Len(bf'.pages), Len(bf'.pages) + 1}
       /\ (bf'.pc = "waiting" \/ bf'.raised) <=> Len(bf'.reqs) = Len(bf'.pages) + 1
       /\ \A i \in 1..Len(bf'.pages) :
             /\ i < Len(bf'.reqs) => bf'.pages[i] = PageSize
             /\ bf'.pages[i] < PageSize => (i = Len(bf'.pages) /\ bf'.pc = "idle")
       /\ bf'.reqs # <<>> => bf'.reqs[1] = {}]_vars

\* a backfill of a full page and a short one, by a collector that has
\* polled and stored trades
C32_Witness ==
    /\ bf.pc = "idle" /\ ~bf.raised
    /\ Len(bf.pages) = 2 /\ bf.pages[2] \in 1..(PageSize - 1)
    /\ Len(bf.out) = PageSize + bf.pages[2]
    /\ cursor # {} /\ main.rows # <<>>


\* ------------------------------------------ two callers of write, one dataset

Writers == {"a", "b"}
Other(who) == IF who = "a" THEN "b" ELSE "a"

\* A caller enters write with a batch of one trade: the existing file is
\* loaded and merged with the batch.
TwStart(who, row) ==
    /\ tw[who].pc = "idle"
    /\ tw' = [tw EXCEPT
                ![who] = [pc |-> "merged", done |-> @.done, batch |-> <<row>>,
                          loaded |-> main,
                          buf |-> RowsToWrite(main, GoodFrame(<<row>>), TRUE, TRUE)],
                !.overlap = @ \/ tw[Other(who)].pc = "merged"]
    /\ UNCHANGED <<svars, cvars, tvars, mvars, xvars, bf, col, syn, fs>>

\* to_parquet of the caller puts its merged rows into the file
TwFinish(who) ==
    /\ tw[who].pc = "merged"
    /\ main' = File(tw[who].buf)
    /\ tw' = [tw EXCEPT ![who].pc = "idle", ![who].done = 1]
    /\ UNCHANGED <<hot, last, cvars, tvars, mvars, xvars, bf, col, syn, fs>>

DoTwStart == \E who \in Writers, row \in ApiTrades : TwStart(who, row)
DoTwFinish == \E who \in Writers : TwFinish(who)

TwoNext == DoTwStart \/ DoTwFinish
SpecTwo == Init /\ [][TwoNext]_vars

\* both callers have written and neither is inside write
BothWrote == \A who \in Writers : tw[who].pc = "idle" /\ tw[who].done = 1

\* C33: as long as no call of write has loaded the file while the other
\* caller was inside write, the dataset holds the ids of the last batch of
\* either caller; rows are lost only when calls overlap.
C33_SerializedWritesKeepBoth ==
    (BothWrote /\ ~tw.overlap) =>
        IdsOf(tw.a.batch) \cup IdsOf(tw.b.batch) \subseteq IdsOf(main.rows)

\* two calls loaded the same existing file, and the dataset has lost the
\* batch of the one that put its rows first
C33_Witness ==
    /\ BothWrote /\ tw.overlap
    /\ tw.a.loaded = tw.b.loaded /\ tw.a.loaded.rows # <<>>
    /\ \E id \in IdsOf(tw.a.batch) \cup IdsOf(tw.b.batch) : id \notin IdsOf(main.rows)
    /\ IdsOf(tw.a.loaded.rows) \subseteq IdsOf(main.rows)


\* ----------------------------------------------- the cursor within one cycle

\* the id a cycle starts above: 0 when its first request carries no fromId
CycleFloor == MaxOf(cyc.from \cup {0})

\* the fromId of request i of the cycle, 0 when it carries none
ReqFrom(i) == MaxOf(reqs[i] \cup {0})

\* C34: within a cycle the fromId of every request is greater than that of
\* the request before it; no id is fetched twice; a further request is sent
\* only when the exchange held a full page above the one before, so a cycle
\* sends no more than one request for every full page of trades the
\* exchange holds above its start, and one more; and a request in flight is
\* always followed by the end of the cycle.
C34_CursorStrictlyIncreases ==
    /\ [](/\ \A i \in 1..(Len(reqs) - 1) : ReqFrom(i) < ReqFrom(i + 1)
          /\ \A id \in IdsOf(allTrades) : Count(allTrades, id) = 1 /\ id > CycleFloor
          /\ \A id \in IdsOf(cyc.batch) : Count(cyc.batch, id) = 1
          /\ cyc.began => (Len(reqs) - 1) * PageSize <= exHi - CycleFloor)
    /\ (pc = "waiting" ~> pc = "idle")

\* a cycle is at its third request
C34_Witness ==
    /\ pc = "waiting" /\ Len(reqs) = 3
    /\ Len(allTrades) = 2 * PageSize


\* ------------------------------------------------- which files a call changes

\* the rows written where the files are followed by their path
FsRows == {Trade(1), Trade(2)}

\* the window_size of the calls of maintain_hot_snapshot
FsWindows == {1}

\* (a write that refreshes the hot snapshot on its way out)
FsWriteAndHot(dataType, sym, row, fault) ==
    \E p \in {FilePath(dataType, sym)}, h \in {HotPath(dataType, sym)} :
    \E w \in {WriteOutcome(fs.files[p], GoodFrame(<<row>>), TRUE, TRUE, TRUE, fault)} :
        /\ fault = "load" => fs.files[p].st = "ok"
        /\ fault \in {"open", "mid"} => w.err = "io"
        /\ fs' = [files |-> [fs.files EXCEPT
                               ![p] = w.file,
                               ![h] = HotOutcome(w.file, @, HotWindow, "none").file],
                  call |-> [op |-> "write", key |-> <<dataType, sym>>, ok |-> w.ok]]
        /\ UNCHANGED <<svars, cvars, tvars, mvars, xvars, bf, col, syn, tw>>

\* StorageEngine.write(df, data_type, symbol, ...) with a batch of one row
FsWrite(dataType, sym, row, fault) ==
    \E p \in {FilePath(dataType, sym)} :
    \E w \in {WriteOutcome(fs.files[p], GoodFrame(<<row>>), TRUE, TRUE, TRUE, fault)} :
        /\ fault = "load" => fs.files[p].st = "ok"
        /\ fault \in {"open", "mid"} => w.err = "io"
        /\ fs' = [files |-> [fs.files EXCEPT ![p] = w.file],
                  call |-> [op |-> "write", key |-> <<dataType, sym>>, ok |-> w.ok]]
        /\ UNCHANGED <<svars, cvars, tvars, mvars, xvars, bf, col, syn, tw>>

\* (a maintain that leaves an empty hot file behind when there is no main
\* file)
FsMaintainCreates(dataType, sym, w, fault) ==
    \E p \in {FilePath(dataType, sym)}, h \in {HotPath(dataType, sym)} :
    \E r \in {HotOutcome(fs.files[p], fs.files[h], w, fault)} :
        /\ fault = "load" => fs.files[p].st = "ok"
        /\ fault \in {"open", "mid"} => r.err = "io"
        /\ fs' = [files |-> [fs.files EXCEPT
                               ![h] = IF fs.files[p].st = "absent" THEN File(<<>>)
                                      ELSE r.file],
                  call |-> [op |-> "maintain_hot", key |-> <<dataType, sym>>, ok |-> r.ok]]
        /\ UNCHANGED <<svars, cvars, tvars, mvars, xvars, bf, col, syn, tw>>

\* StorageEngine.maintain_hot_snapshot(data_type, symbol, window_size)
FsMaintain(dataType, sym, w, fault) ==
    \E p \in {FilePath(dataType, sym)}, h \in {HotPath(dataType, sym)} :
    \E r \in {HotOutcome(fs.files[p], fs.files[h], w, fault)} :
        /\ fault = "load" => fs.files[p].st = "ok"
        /\ fault \in {"open", "mid"} => r.err = "io"
        /\ fs' = [files |-> [fs.files EXCEPT ![h] = r.file],
                  call |-> [op |-> "maintain_hot", key |-> <<dataType, sym>>, ok |-> r.ok]]
        /\ UNCHANGED <<svars, cvars, tvars, mvars, xvars, bf, col, syn, tw>>

\* Retention, which is not the engine's: someone removes the main file of a
\* dataset, its hot file stays.
FsRetention(dataType, sym) ==
    /\ fs.files[FilePath(dataType, sym)].st # "absent"
    /\ fs' = [files |-> [fs.files EXCEPT ![FilePath(dataType, sym)] = Absent],
              call |-> [op |-> "retention", key |-> <<dataType, sym>>, ok |-> TRUE]]
    /\ UNCHANGED <<svars, cvars, tvars, mvars, xvars, bf, col, syn, tw>>

DoFsWrite ==
    \E k \in FsKeys, row \in FsRows, fault \in CleanFaults : FsWrite(k[1], k[2], row, fault)
DoFsMaintain ==
    \E k \in FsKeys, w \in FsWindows, fault \in CleanFaults :
        FsMaintain(k[1], k[2], w, fault)
DoFsRetention == \E k \in FsKeys : FsRetention(k[1], k[2])

FilesNext == DoFsWrite \/ DoFsMaintain \/ DoFsRetention
SpecFiles == Init /\ [][FilesNext]_vars

\* the call that led to the state is op on the dataset k
Called(c, op, k) == c.op = op /\ c.key = k

\* C35: a call of write leaves every file but the main file of its dataset
\* as it was: the main files of the other datasets, and every hot file, the
\* one of its own dataset too.
C35_WriteChangesOneMainFile ==
    [][\A k \in FsKeys :
          Called(fs'.call, "write", k) =>
              \A p \in Paths \ {FilePath(k[1], k[2])} : fs'.files[p] = fs.files[p]]_vars

\* a write has changed a dataset whose hot file now lags behind it, beside
\* another dataset of the symbol and another of the data type
C35_Witness ==
    /\ Called(fs.call, "write", <<"trades", "A">>) /\ fs.call.ok
    /\ Len(fs.files[<<"trades", "A">>].rows) = 2
    /\ Len(fs.files[<<"trades", "A", "_hot">>].rows) = 1
    /\ fs.files[<<"trades", "A", "_hot">>].rows[1] # fs.files[<<"trades", "A">>].rows[2]
    /\ fs.files[<<"trades", "B">>].rows # <<>>
    /\ fs.files[<<"orderbook", "A">>].rows # <<>>

\* C36: a call of maintain_hot_snapshot leaves every file but the hot file
\* of its dataset as it was, and that one too when the dataset has no main
\* file.
C36_MaintainChangesOneHotFile ==
    [][\A k \in FsKeys :
          Called(fs'.call, "maintain_hot", k) =>
              /\ \A p \in Paths \ {HotPath(k[1], k[2])} : fs'.files[p] = fs.files[p]
              /\ fs.files[FilePath(k[1], k[2])].st = "absent" => fs'.files = fs.files]_vars

\* maintain_hot_snapshot was called for a dataset whose main file is gone
\* and whose hot file is still there
C36_Witness ==
    /\ Called(fs.call, "maintain_hot", <<"trades", "A">>)
    /\ fs.files[<<"trades", "A">>].st = "absent"
    /\ fs.files[<<"trades", "A", "_hot">>].rows # <<>>
    /\ fs.files[<<"trades", "B">>].rows # <<>>


\* ------------------------------------------------ collecting without saving

\* max_requests of a call of collect_symbol ({}: not given)
ColMax == {{}, {0}, {1}, {2}}
ColKinds == {"collect_symbol", "update"}

\* if max_requests and request_count >= max_requests: break
LimitReached(maxReq, n) == \E m \in maxReq : m # 0 /\ n >= m

\* collect_symbol(symbol, max_requests) is called by the user, or
\* update(save=False) for the symbol (which passes no max_requests): from_id
\* is determined as in every cycle, and the first request is sent. A storage
\* read that raises ends the call.
ColBegin(kind, maxReq) ==
    /\ col.pc = "idle" /\ pc = "idle"
    /\ kind = "update" => maxReq = {}
    /\ IF main.st # "absent" /\ ReadFails(main, "none")
       THEN col' = [NoCol EXCEPT !.kind = kind, !.maxReq = maxReq, !.done = "raised"]
       ELSE \E from \in {ChooseFrom(cursor, main)} :
            IF LimitReached(maxReq, 0)
            THEN col' = [NoCol EXCEPT !.kind = kind, !.maxReq = maxReq,
                                      !.done = "returned"]
            ELSE col' = [NoCol EXCEPT !.pc = "waiting", !.kind = kind,
                                      !.maxReq = maxReq, !.fromId = from, !.n = 1]
    /\ UNCHANGED <<svars, cvars, tvars, mvars, xvars, bf, syn, tw, fs>>

\* The response to the request in flight arrives; the loop runs on to its
\* next request or to the return of the frame. Nothing is written.
ColFetch ==
    /\ col.pc = "waiting"
    /\ \E page \in {ExchangePage(FetchParam(col.fromId), PageSize)} :
       \E c \in {[col EXCEPT !.all = Concat(@, page), !.pages = @ \o page]} :
          IF page = <<>>
          THEN /\ col' = [c EXCEPT !.pc = "idle", !.done = "returned", !.out = c.all]
               /\ UNCHANGED cursor
          ELSE \E lastId \in {MaxOf(IdsOf(page))} :
               /\ cursor' = {lastId}
               /\ IF CaughtUp(page) \/ LimitReached(col.maxReq, col.n)
                  THEN col' = [c EXCEPT !.pc = "idle", !.done = "returned",
                                        !.fromId = {lastId}, !.out = c.all]
                  ELSE col' = [c EXCEPT !.fromId = NextFrom(col.fromId, lastId),
                                        !.n = @ + 1]
    /\ UNCHANGED <<svars, cvars, mvars, xvars, bf, syn, tw, fs,
                   exHi, pc, fromId, allTrades, reqs, cyc, failedIds>>

\* requests.get fails, the status is not 200, or _parse_trades raises
ColRaises ==
    /\ col.pc = "waiting"
    /\ col' = [col EXCEPT !.pc = "idle", !.done = "raised"]
    /\ UNCHANGED <<svars, cvars, tvars, mvars, xvars, bf, syn, tw, fs>>

DoColBegin == \E kind \in ColKinds, maxReq \in ColMax : ColBegin(kind, maxReq)

\* update(save=True) of the same collector, between those calls
ColCycleBegin == col.pc = "idle" /\ Begin("none")

CollectNext ==
    NewTrade \/ DoColBegin \/ ColFetch \/ ColRaises \/ ColCycleBegin \/ CycleFetch
SpecCollect == Init /\ [][CollectNext]_vars

\* C37: between calls the id the collector remembers is never above the
\* highest id stored; and an update(save=True) that ends with result "ok"
\* leaves in the dataset every trade the exchange held when it began whose
\* id is above the highest id stored then.
C37_CollectingWithoutSavingKeepsData ==
    /\ (pc = "idle" /\ col.pc = "idle") =>
           \A c \in cursor : \E m \in StoredMax(main) : c <= m
    /\ (Ended /\ cyc.result = "ok") =>
           \A i \in 1..cyc.exAt :
               i > MaxOf(cyc.maxStored \cup {0}) => i \in IdsOf(main.rows)

\* C38: a call of collect_symbol with max_requests = m sends at most m
\* requests, and what it returns is the pages it fetched, one after the
\* other.
C38_MaxRequestsBoundsTheCall ==
    /\ \A m \in col.maxReq : col.n <= m
    /\ col.done = "returned" => col.out = col.pages


\* ------------------------------- BinanceCollectorClient.sync_incremental

\* What the environment does to one sync: nothing, the local file cannot be
\* read, scp fails, or to_parquet fails before or after opening the target.
SyncFaults == {"none", "load", "scp", "open", "mid"}

\* new_data: remote_df[remote_df['timestamp'] > local_latest], the whole of
\* remote_df when local_latest is None
NewData(rows, latest) ==
    SelectSeq(rows, LAMBDA r : \A i \in 1..Len(latest) : r.ts > latest[i])

\* the collector on the server stores the next trade in the remote dataset,
\* or fails while it rewrites the file
SynCollect(fault) ==
    \E w \in {WriteOutcome(syn.remote, GoodFrame(<<Trade(Len(syn.remote.rows) + 1)>>),
                           TRUE, TRUE, TRUE, fault)} :
        /\ syn.remote.st # "torn"
        /\ Len(syn.remote.rows) < MaxTrades
        /\ syn' = [syn EXCEPT !.remote = w.file, !.taken = FALSE]
        /\ UNCHANGED <<svars, cvars, tvars, mvars, xvars, bf, col, tw, fs>>

\* sync_incremental('trades', symbol, target_storage) in remote mode
SyncIncremental(fault) ==
    \E lt \in {LatestTimestamp(syn.local, IF fault = "load" THEN "load" ELSE "none")} :
    \E new \in {NewData(syn.remote.rows, lt.out)} :
    \E w \in {WriteOutcome(syn.local, GoodFrame(new), TRUE, TRUE, TRUE,
                           IF fault \in {"open", "mid"} THEN fault ELSE "none")} :
        /\ fault = "load" => syn.local.st = "ok"
        /\ fault \in {"open", "mid"} => lt.ok /\ syn.remote.st = "ok" /\ new # <<>>
        /\ syn' =
             IF ~lt.ok \/ fault = "scp" \/ syn.remote.st # "ok"
             THEN [syn EXCEPT !.taken = TRUE, !.ok = FALSE, !.before = syn.local,
                              !.out = 0]
             ELSE IF syn.remote.rows = <<>> \/ new = <<>>
             THEN [syn EXCEPT !.taken = TRUE, !.ok = TRUE, !.before = syn.local,
                              !.out = 0]
             ELSE [syn EXCEPT !.local = w.file, !.taken = TRUE, !.ok = w.ok,
                              !.before = syn.local, !.out = IF w.ok THEN Len(new) ELSE 0]
        /\ UNCHANGED <<svars, cvars, tvars, mvars, xvars, bf, col, tw, fs>>

DoSync == \E fault \in SyncFaults : SyncIncremental(fault)
DoSynCollect == \E fault \in {"none", "mid"} : SynCollect(fault)

SyncNext == DoSynCollect \/ DoSync
SpecSync == Init /\ [][SyncNext]_vars

\* C39: when sync_incremental has returned, every id of the remote dataset is
\* in the local one, and the count returned is the number of ids added.
C39_SyncLosesNothing ==
    (syn.taken /\ syn.ok) =>
        /\ IdsOf(syn.remote.rows) \subseteq IdsOf(syn.local.rows)
        /\ syn.out = Cardinality(IdsOf(syn.local.rows) \ IdsOf(syn.before.rows))


\* ------------------------------------------- the pagination of the Query API

\* GET /trades/{symbol} where the dataset file is read without an error: the
\* handler, with the request kept beside the response:
\*      picked    the rows the time range of the request selects;
\*      limit, offset, tail   the pagination parameters of the request.
PageRequest(start, end, limit, offset, tail) ==
    /\ ~HoldsBook(main)
    /\ main.st # "torn"
    /\ \E raised \in {RaisedInTry(main, "none")} :
       \E picked \in {SelectRange(main.rows, start, end)} :
       \E x \in {ExceptClauses(raised)} :
          api' = [taken |-> TRUE, endpoint |-> "trades", file |-> main,
                  raised |-> raised,
                  status |-> IF raised = "none" THEN 200 ELSE x.status,
                  detail |-> IF raised = "none" THEN "none" ELSE x.detail,
                  path |-> IF raised = "none" THEN FALSE ELSE x.path,
                  rows |-> IF raised = "none"
                           THEN Paginate(picked, limit, offset, tail) ELSE <<>>,
                  picked |-> picked, limit |-> limit, offset |-> offset,
                  tail |-> tail]
    /\ UNCHANGED <<svars, cvars, tvars, mvars, agg, snap, par, yvars>>

DoPageRequest ==
    \E start \in TimeBounds, end \in TimeBounds,
       limit \in ApiLimits, offset \in ApiOffsets, tail \in BOOLEAN :
        PageRequest(start, end, limit, offset, tail)

PageNext == ApiTradesWritten \/ DoPageRequest
SpecPage == Init /\ [][PageNext]_vars

\* the answer to the request for the page before: the same limit, offset 0
FirstPage == Paginate(api.picked, api.limit, 0, api.tail)

\* C40: of the most recent rows, the page at offset L shares no row with the
\* page at offset 0 and both hold L rows when 2L rows are selected; of the
\* first rows, the response is rows offset..offset+limit-1 of the selection.
C40_OffsetSkipsRows ==
    (api.taken /\ api.status = 200) =>
        /\ (api.tail /\ api.offset = api.limit /\ Len(api.picked) >= 2 * api.limit) =>
               /\ Len(api.rows) = api.limit
               /\ Len(FirstPage) = api.limit
               /\ IdsOf(api.rows) \cap IdsOf(FirstPage) = {}
        /\ ~api.tail =>
               /\ Len(api.rows) = IF Len(api.picked) - api.offset >= api.limit
                                   THEN api.limit
                                   ELSE IF Len(api.picked) > api.offset
                                   THEN Len(api.picked) - api.offset ELSE 0
               /\ \A i \in 1..Len(api.rows) : api.rows[i] = api.picked[api.offset + i]

=============================================================================
